---------------------------- MODULE Spec2Model ----------------------------
(***************************************************************************)
(* HomeGuard agentic-AI service (services/python/agentic-ai/main.py).      *)
(*                                                                         *)
(* The model follows AgenticAI.chat through its suspension points: the     *)
(* downstream device-service calls of the local intent matcher, the        *)
(* planner request with its retry loop and backoff waits, and the          *)
(* execution of the planned tool calls.  Python strings are TLC strings,   *)
(* Python dicts are records read with Get (dict.get), Python lists are     *)
(* sequences, and list objects live in a heap so that two names of one     *)
(* list (conversations[id] and the local `history`) stay aliases.          *)
(***************************************************************************)
EXTENDS Integers, Sequences, FiniteSets, TLC

(***************************************************************************)
(* Python string operations                                                *)
(***************************************************************************)

\* str.lower(), one character
LowerChar(c) ==
    CASE c = "A" -> "a" [] c = "B" -> "b" [] c = "C" -> "c" [] c = "D" -> "d"
      [] c = "E" -> "e" [] c = "F" -> "f" [] c = "G" -> "g" [] c = "H" -> "h"
      [] c = "I" -> "i" [] c = "J" -> "j" [] c = "K" -> "k" [] c = "L" -> "l"
      [] c = "M" -> "m" [] c = "N" -> "n" [] c = "O" -> "o" [] c = "P" -> "p"
      [] c = "Q" -> "q" [] c = "R" -> "r" [] c = "S" -> "s" [] c = "T" -> "t"
      [] c = "U" -> "u" [] c = "V" -> "v" [] c = "W" -> "w" [] c = "X" -> "x"
      [] c = "Y" -> "y" [] c = "Z" -> "z" [] OTHER -> c

RECURSIVE Lower(_)
Lower(s) == IF s = "" THEN "" ELSE LowerChar(Head(s)) \o Lower(Tail(s))

RECURSIVE LStrip(_)
LStrip(s) == IF s # "" /\ Head(s) = " " THEN LStrip(Tail(s)) ELSE s

RECURSIVE RStrip(_)
RStrip(s) ==
    IF s # "" /\ SubSeq(s, Len(s), Len(s)) = " "
    THEN RStrip(SubSeq(s, 1, Len(s) - 1))
    ELSE s

\* str.strip()
Strip(s) == RStrip(LStrip(s))

\* s.startswith(p)
StartsWith(s, p) == Len(p) <= Len(s) /\ SubSeq(s, 1, Len(p)) = p

\* `p in s` for strings
Contains(s, p) ==
    \/ p = ""
    \/ \E i \in 1..(Len(s) - Len(p) + 1) : SubSeq(s, i, i + Len(p) - 1) = p

\* s.replace(old, ""): every non-overlapping occurrence, left to right
RECURSIVE Remove(_, _)
Remove(s, old) ==
    IF s = "" THEN ""
    ELSE IF StartsWith(s, old) THEN Remove(SubSeq(s, Len(old) + 1, Len(s)), old)
    ELSE Head(s) \o Remove(Tail(s), old)

\* s.split(): the maximal runs of non-blank characters, in order
RECURSIVE SplitFrom(_, _)
SplitFrom(s, word) ==
    IF s = "" THEN (IF word = "" THEN <<>> ELSE <<word>>)
    ELSE IF Head(s) = " "
         THEN (IF word = "" THEN <<>> ELSE <<word>>) \o SplitFrom(Tail(s), "")
         ELSE SplitFrom(Tail(s), word \o Head(s))

Split(s) == SplitFrom(s, "")

IsDigit(c) == c \in {"0", "1", "2", "3", "4", "5", "6", "7", "8", "9"}

DigitVal(c) ==
    CASE c = "0" -> 0 [] c = "1" -> 1 [] c = "2" -> 2 [] c = "3" -> 3
      [] c = "4" -> 4 [] c = "5" -> 5 [] c = "6" -> 6 [] c = "7" -> 7
      [] c = "8" -> 8 [] c = "9" -> 9

\* the leading run of digits of s
RECURSIVE DigitRun(_)
DigitRun(s) ==
    IF s # "" /\ IsDigit(Head(s)) THEN Head(s) \o DigitRun(Tail(s)) ELSE ""

\* re.search(r'(\d+)...', s).group(1): the first maximal run of digits, "" if none
RECURSIVE FirstDigits(_)
FirstDigits(s) ==
    IF s = "" THEN ""
    ELSE IF IsDigit(Head(s)) THEN DigitRun(s) ELSE FirstDigits(Tail(s))

\* int(s) for a string of digits
RECURSIVE IntOf(_)
IntOf(s) ==
    IF s = "" THEN 0
    ELSE 10 * IntOf(SubSeq(s, 1, Len(s) - 1)) + DigitVal(SubSeq(s, Len(s), Len(s)))

\* any(p in s for p in pats)
AnyIn(s, pats) == \E i \in 1..Len(pats) : Contains(s, pats[i])

\* dict.get(key, default)
Get(d, key, default) == IF key \in DOMAIN d THEN d[key] ELSE default


(***************************************************************************)
(* Program constants                                                       *)
(***************************************************************************)

\* chat: `if len(history) > 20: history = history[-20:]`
HistoryLimit == 20
\* _call_gemini_optimized: `history[-6:]`
HistoryWindow == 6
\* _call_gemini_with_retry: max_retries, the first retry_delay and its ceiling
max_retries == 5
BaseDelay == 10
DelayCeiling == 60

(***************************************************************************)
(* Bounds of the model                                                     *)
(***************************************************************************)

\* parts of a planner answer
MaxParts == 2

(***************************************************************************)
(* Inputs: messages, the device directory, downstream outcomes             *)
(***************************************************************************)

Messages ==
    { "What devices do I have?",
      "status of all devices",
      "is the lamp on",
      "check the lamp and the front door",
      "Is the door locked?",
      "turn off all lights",
      "turn on the lamp",
      "Unlock the door",
      "lock the door",
      "set temperature to 70",
      "show usage for week and month",
      "show my usage",
      "activity summary of the week",
      "Monthly insights",
      "hello" }

ConvIds == {"c1"}

Lamp ==
    [id |-> "d1", name |-> "Lamp", type |-> "light", online |-> TRUE,
     location |-> "Living Room", config |-> [power_on |-> TRUE, brightness |-> 80]]
DeskLight ==
    [id |-> "d2", name |-> "Desk Light", type |-> "light", online |-> FALSE,
     location |-> "Office", config |-> [power_on |-> FALSE]]
FrontDoor ==
    [id |-> "d3", name |-> "Front Door", type |-> "smart_lock", online |-> TRUE,
     location |-> "Entrance", config |-> [locked |-> TRUE]]
Hallway ==
    [id |-> "d4", name |-> "Hallway", type |-> "thermostat", online |-> TRUE,
     location |-> "Hall", config |-> [target_temp |-> 68]]
HallSwitch ==
    [id |-> "d6", name |-> "Hall Lights", type |-> "switch", online |-> TRUE,
     location |-> "Hall"]
Den ==
    [id |-> "d5", name |-> "Den", type |-> "thermostat", online |-> TRUE,
     location |-> "Den", config |-> [target_temp |-> 66]]

\* What GET /devices[?type=T] may answer with status 200; the directory is an
\* external service and may answer differently on each call.
Listings(device_type) ==
    CASE device_type = "light" -> {<<>>, <<Lamp>>, <<Lamp, DeskLight>>, <<DeskLight, Lamp>>}
      [] device_type = "smart_lock" -> {<<>>, <<FrontDoor>>}
      [] device_type = "thermostat" -> {<<>>, <<Hallway>>, <<Den, Hallway>>}
      [] OTHER -> {<<>>, <<FrontDoor, Lamp>>, <<HallSwitch>>}

\* The outcome of one HTTP call: an exception of the client (connection
\* error, timeout) or a response with a status and, for 200, a JSON body.
TransportError == [exc |-> "ConnectError"]
IsExc(o) == "exc" \in DOMAIN o

\* A Python call either returns a value or raises.
Raise(e) == [raise |-> e]
Raises(r) == "raise" \in DOMAIN r

ListOutcomes(device_type) ==
    {TransportError, [status |-> 500]}
        \cup {[status |-> 200, json |-> [devices |-> l]] : l \in Listings(device_type)}

\* GET /devices/{id}/status
StatusPayload(device_id) ==
    CASE device_id = "d1" ->
            [name |-> "Lamp", type |-> "light", state |-> "on", location |-> "Living Room",
             device |-> [config |-> [power_on |-> TRUE, brightness |-> 60]]]
      [] device_id = "d2" ->
            [name |-> "Desk Light", type |-> "light", state |-> "off", location |-> "Office"]
      [] device_id = "d3" ->
            [name |-> "Front Door", type |-> "smart_lock", state |-> "locked",
             location |-> "Entrance", device |-> [config |-> [locked |-> TRUE]]]
      [] device_id = "d6" ->
            [name |-> "Hall Lights", type |-> "switch", state |-> "on", location |-> "Hall"]
      [] OTHER ->
            [name |-> "Hallway", type |-> "thermostat", status |-> "heating",
             location |-> "Hall", target_temperature |-> 70]

StatusOutcomes(device_id) ==
    {TransportError, [status |-> 404], [status |-> 200, json |-> StatusPayload(device_id)]}

\* POST /devices/{id}/command
CommandOutcomes == {TransportError, [status |-> 200], [status |-> 202], [status |-> 500]}

(***************************************************************************)
(* The tools: what each returns (or raises) for the outcome of its         *)
(* downstream call                                                         *)
(***************************************************************************)

\* _tool_list_devices, after `await self.http_client.get(...)`
tool_list_devices(o) ==
    IF IsExc(o) THEN Raise(o.exc)
    ELSE IF o.status = 200 THEN o.json
    ELSE [devices |-> <<>>, error |-> "Failed to fetch devices"]

\* _tool_get_device_status, after the GET
tool_get_device_status(o) ==
    IF IsExc(o) THEN Raise(o.exc)
    ELSE IF o.status = 200 THEN o.json
    ELSE [error |-> "Device not found"]

\* _tool_send_device_command, after the POST
tool_send_device_command(args, o) ==
    IF IsExc(o) THEN Raise(o.exc)
    ELSE IF o.status \in {200, 202}
         THEN [success |-> TRUE,
               message |-> "Command '" \o Get(args, "command", "None") \o "' executed"]
    ELSE [success |-> FALSE, error |-> "Failed to send command"]

\* _tool_create_automation: a mock, no downstream call (the id is a fresh uuid)
tool_create_automation(args) ==
    [success |-> TRUE,
     message |-> "Automation '" \o Get(args, "name", "None") \o "' created",
     id |-> "uuid"]

\* _tool_get_analytics: a fixed summary, no downstream call
tool_get_analytics(args) ==
    [period |-> Get(args, "period", "day"),
     summary |-> [total_events |-> 142, active_devices |-> 8, alerts |-> 3,
                  energy_usage |-> "12.5 kWh"],
     top_devices |-> << [name |-> "Living Room Camera", events |-> 45],
                        [name |-> "Front Door Sensor", events |-> 32],
                        [name |-> "Thermostat", events |-> 28] >>]

\* get_status inside _tool_get_all_device_statuses: one fetch of the fan-out
get_status(device, o) ==
    IF IsExc(o)
    THEN [name |-> Get(device, "name", "None"), status |-> "error", error |-> o.exc]
    ELSE IF o.status = 200 THEN o.json
    ELSE [name |-> Get(device, "name", "None"), status |-> "unknown",
          error |-> "Failed to get status"]

\* The names _execute_tool dispatches on
RegisteredTools ==
    {"list_devices", "get_device_status", "get_all_device_statuses",
     "send_device_command", "create_automation", "get_analytics"}

(***************************************************************************)
(* The response formatter.  The emoji of the source are written as ASCII   *)
(* tags.                                                                   *)
(***************************************************************************)

\* sep.join(lines)
RECURSIVE Join(_, _)
Join(lines, sep) ==
    IF lines = <<>> THEN ""
    ELSE IF Len(lines) = 1 THEN lines[1]
    ELSE lines[1] \o sep \o Join(Tail(lines), sep)

\* dict.update: the keys of b override those of a
Merge(a, b) ==
    [k \in DOMAIN a \cup DOMAIN b |-> IF k \in DOMAIN b THEN b[k] ELSE a[k]]

EmptyDict == [k \in {} |-> 0]

\* a variant of _format_device_list without the case of the empty list
format_device_list_counting(result) ==
    LET devices == Get(result, "devices", <<>>)
        line(d) == "* **" \o d.name \o "** (" \o d.type \o ") - "
                      \o (IF Get(d, "online", FALSE) THEN "[green] online"
                                                      ELSE "[red] offline")
    IN  Join(<<"You have " \o ToString(Len(devices)) \o " device(s):\n">>
                 \o [i \in 1..Len(devices) |-> line(devices[i])], "\n")

\* _format_device_list
format_device_list(result) ==
    LET devices == Get(result, "devices", <<>>)
        line(d) == "* **" \o d.name \o "** (" \o d.type \o ") - "
                      \o (IF Get(d, "online", FALSE) THEN "[green] online"
                                                      ELSE "[red] offline")
    IN  IF devices = <<>>
        THEN "You don't have any devices registered yet."
        ELSE Join(<<"You have " \o ToString(Len(devices)) \o " device(s):\n">>
                      \o [i \in 1..Len(devices) |-> line(devices[i])], "\n")

\* the keys of by_location in insertion order
RECURSIVE Locations(_, _)
Locations(statuses, seen) ==
    IF statuses = <<>> THEN <<>>
    ELSE LET loc == Get(Head(statuses), "location", "Other")
         IN  IF loc \in seen THEN Locations(Tail(statuses), seen)
             ELSE <<loc>> \o Locations(Tail(statuses), seen \cup {loc})

\* one device line of _format_all_device_statuses
StatusLine(d) ==
    LET name  == Get(d, "name", "Unknown")
        dtype == Get(d, "type", "")
    IN  CASE dtype = "light" ->
               IF Get(d, "state", "None") = "on"
               THEN "  * " \o name \o ": [bulb] On"
                      \o (IF "brightness" \in DOMAIN d /\ d.brightness # 0
                          THEN ", brightness " \o ToString(d.brightness) \o "%" ELSE "")
               ELSE "  * " \o name \o ": Off"
          [] dtype = "thermostat" ->
               "  * " \o name \o ": [temp] "
                 \o (IF "target_temperature" \in DOMAIN d
                     THEN ToString(d.target_temperature)
                     ELSE IF "target_temp" \in DOMAIN Get(d, "config", EmptyDict)
                          THEN ToString(d.config.target_temp) ELSE "?")
                 \o " F"
          [] dtype = "smart_lock" ->
               "  * " \o name \o ": "
                 \o (IF Get(d, "state", "None") = "locked" THEN "[locked] Locked"
                                                         ELSE "[open] Unlocked")
          [] dtype = "camera" ->
               "  * " \o name \o ": [camera] Active"
                 \o (IF Get(d, "motion_detection", FALSE) THEN ", motion detection on" ELSE "")
          [] dtype = "door_sensor" ->
               "  * " \o name \o ": "
                 \o (IF Get(d, "online", FALSE) THEN "[green]" ELSE "[red] offline")
          [] OTHER ->
               "  * " \o name \o ": " \o Get(d, "state", Get(d, "status", "unknown"))

\* the lines of the statuses at one location, in their order
RECURSIVE LinesAt(_, _)
LinesAt(statuses, loc) ==
    IF statuses = <<>> THEN <<>>
    ELSE (IF Get(Head(statuses), "location", "Other") = loc
          THEN <<StatusLine(Head(statuses))>> ELSE <<>>)
             \o LinesAt(Tail(statuses), loc)

RECURSIVE Sections(_, _)
Sections(statuses, locs) ==
    IF locs = <<>> THEN <<>>
    ELSE <<"**" \o Head(locs) \o "**">> \o LinesAt(statuses, Head(locs)) \o <<"">>
            \o Sections(statuses, Tail(locs))

\* _format_all_device_statuses
format_all_device_statuses(result) ==
    LET statuses == Get(result, "statuses", <<>>)
    IN  IF statuses = <<>> THEN "No devices found."
        ELSE Join(<<"Here's the status of all your devices:\n">>
                     \o Sections(statuses, Locations(statuses, {})), "\n")

\* the config _format_single_device_status reads: the device's own config
\* after `config.update(...)`, which changes the device's dict in place
merged_config(device, status_result) ==
    LET config == Get(device, "config", EmptyDict)
    IN  IF "device" \in DOMAIN status_result
        THEN Merge(config, Get(status_result.device, "config", EmptyDict))
        ELSE config

\* _format_single_device_status: the text
format_single_device_status(device, status_result) ==
    LET name   == Get(device, "name", "Unknown")
        dtype  == Get(device, "type", "")
        config == merged_config(device, status_result)
        body ==
          CASE dtype = "smart_lock" ->
                 <<"State: " \o (IF Get(config, "locked", FALSE) THEN "[locked] Locked"
                                                                ELSE "[open] Unlocked")>>
            [] dtype = "light" ->
                 <<"State: " \o (IF Get(config, "power_on", FALSE) THEN "[bulb] On" ELSE "Off")>>
                   \o (IF "brightness" \in DOMAIN config /\ config.brightness # 0
                       THEN <<"Brightness: " \o ToString(config.brightness) \o "%">>
                       ELSE <<>>)
            [] dtype = "thermostat" ->
                 <<"[temp] Target temperature: "
                     \o (IF "target_temp" \in DOMAIN config
                         THEN ToString(config.target_temp) ELSE "?") \o " F">>
            [] dtype = "camera" -> <<"[camera] Camera is active">>
            [] dtype = "door_sensor" -> <<"[door] Door sensor monitoring">>
            [] OTHER -> <<"Status: " \o Get(device, "status", "unknown")>>
        location == Get(device, "location", "")
    IN  Join(<<"**" \o name \o "** status:\n">> \o body
               \o (IF location # "" THEN <<"Location: " \o location>> ELSE <<>>), "\n")

\* _format_analytics
format_analytics(result) ==
    LET summary     == Get(result, "summary", EmptyDict)
        top_devices == Get(result, "top_devices", <<>>)
        n           == IF Len(top_devices) < 3 THEN Len(top_devices) ELSE 3
    IN  Join(<< "**Activity Summary** (" \o Get(result, "period", "day") \o ")\n",
                "* Total events: " \o ToString(Get(summary, "total_events", 0)),
                "* Active devices: " \o ToString(Get(summary, "active_devices", 0)),
                "* Alerts: " \o ToString(Get(summary, "alerts", 0)),
                "* Energy usage: " \o Get(summary, "energy_usage", "N/A") >>
             \o (IF top_devices # <<>>
                 THEN <<"\n**Most Active Devices:**">>
                        \o [i \in 1..n |-> "  * " \o top_devices[i].name \o ": "
                                             \o ToString(top_devices[i].events) \o " events"]
                 ELSE <<>>), "\n")

\* the fragment _generate_response_from_actions renders for one action
\* (none for a tool it does not know)
Fragment(action) ==
    LET tool   == action.tool
        result == Get(action, "result", EmptyDict)
        args   == Get(action, "args", EmptyDict)
    IN  CASE tool = "list_devices" -> <<format_device_list(result)>>
          [] tool = "get_all_device_statuses" -> <<format_all_device_statuses(result)>>
          [] tool = "get_device_status" ->
               <<"**" \o Get(result, "name", "Device") \o "**: "
                   \o Get(result, "state", Get(result, "status", "unknown"))>>
          [] tool = "send_device_command" ->
               IF Get(result, "success", FALSE)
               THEN <<"[ok] Command '" \o Get(args, "command", "command")
                        \o "' executed successfully.">>
               ELSE <<"[warn] Command failed: " \o Get(result, "error", "Unknown error")>>
          [] tool = "get_analytics" -> <<format_analytics(result)>>
          [] tool = "create_automation" ->
               IF Get(result, "success", FALSE)
               THEN <<"[ok] Automation created: " \o Get(args, "name", "New automation")>>
               ELSE <<"[warn] Failed to create automation">>
          [] OTHER -> <<>>

RECURSIVE Fragments(_)
Fragments(actions) ==
    IF actions = <<>> THEN <<>> ELSE Fragment(Head(actions)) \o Fragments(Tail(actions))

\* a variant of _generate_response_from_actions that puts each fragment in
\* front of the earlier ones
RECURSIVE FragmentsReversed(_)
FragmentsReversed(actions) ==
    IF actions = <<>> THEN <<>>
    ELSE FragmentsReversed(Tail(actions)) \o Fragment(Head(actions))
generate_response_newest_first(actions) ==
    IF actions = <<>>
    THEN "I'm not sure how to help with that. Try asking about your devices or their status."
    ELSE IF FragmentsReversed(actions) # <<>>
    THEN Join(FragmentsReversed(actions), "\n\n") ELSE "Done!"

\* _generate_response_from_actions
generate_response_from_actions(actions) ==
    IF actions = <<>>
    THEN "I'm not sure how to help with that. Try asking about your devices or their status."
    ELSE IF Fragments(actions) # <<>> THEN Join(Fragments(actions), "\n\n") ELSE "Done!"

(***************************************************************************)
(* The local intent matcher: the patterns of _try_local_handling           *)
(***************************************************************************)

\* `msg_lower = message.lower().strip()`
msg_lower_of(message) == Strip(Lower(message))

device_patterns ==
    <<"what devices", "list devices", "show devices", "my devices", "all devices", "do i have">>
all_status_patterns ==
    <<"status of all", "all device status", "all status", "status of my devices",
      "show me all device">>
status_patterns ==
    <<"status of", "what is the status", "is the", "check the", "how is the">>
\* the (action, cmd) pairs of the two "turn on/off" loops
switch_actions ==
    << <<"turn on", "turn_on">>, <<"turn off", "turn_off">>,
       <<"switch on", "turn_on">>, <<"switch off", "turn_off">> >>
\* the (action, cmd) pairs of the lock loop
lock_actions == << <<"unlock", "unlock">>, <<"lock", "lock">> >>
analytics_patterns == <<"analytics", "usage", "activity", "summary", "insights">>
stop_words == <<"the", "my", "please", "can you", "could you", "device", "for me">>

\* the loop of _extract_device_name over the common words
RECURSIVE StripWords(_, _)
StripWords(text, words) ==
    IF words = <<>> THEN text
    ELSE StripWords(Strip(Remove(text, Head(words))), Tail(words))

\* _extract_device_name; "" stands for None
extract_device_name(message, action) ==
    StripWords(Strip(Remove(message, action)), stop_words)

\* _find_device_by_name: the index of the first device that matches, 0 for None
find_device_by_name(devices, name) ==
    LET name_lower == Lower(name)
        hit(i) == LET device_name == Lower(Get(devices[i], "name", ""))
                  IN  Contains(device_name, name_lower) \/ Contains(name_lower, device_name)
        hits == {i \in 1..Len(devices) : hit(i)}
    IN  IF hits = {} THEN 0 ELSE CHOOSE i \in hits : \A j \in hits : i <= j

\* a variant of the device loop that keeps the last device that matches
find_status_device_last(devices, msg_lower) ==
    LET hit(i) == LET name_words == Split(Lower(Get(devices[i], "name", "")))
                  IN  \E k \in 1..Len(name_words) :
                         Len(name_words[k]) > 2 /\ Contains(msg_lower, name_words[k])
        hits == {i \in 1..Len(devices) : hit(i)}
    IN  IF hits = {} THEN 0 ELSE CHOOSE i \in hits : \A j \in hits : i >= j

\* the device loop of the single-device status rule: the index of the first
\* device one of whose name words (longer than 2) occurs in the message, 0 if none
find_status_device(devices, msg_lower) ==
    LET hit(i) == LET name_words == Split(Lower(Get(devices[i], "name", "")))
                  IN  \E k \in 1..Len(name_words) :
                         Len(name_words[k]) > 2 /\ Contains(msg_lower, name_words[k])
        hits == {i \in 1..Len(devices) : hit(i)}
    IN  IF hits = {} THEN 0 ELSE CHOOSE i \in hits : \A j \in hits : i <= j

\* a variant of the analytics rule that tests "month" before "week"
analytics_period_month_first(msg_lower) ==
    IF Contains(msg_lower, "month") THEN "month"
    ELSE IF Contains(msg_lower, "week") THEN "week"
    ELSE "day"

\* `period` of the analytics rule
analytics_period(msg_lower) ==
    IF Contains(msg_lower, "week") THEN "week"
    ELSE IF Contains(msg_lower, "month") THEN "month"
    ELSE "day"

(***************************************************************************)
(* _try_local_handling tries its patterns in program order.  A stage is    *)
(* one place where a pattern is tested: 1 device list, 2 all statuses,     *)
(* 3 one device's status, 4-7 the four pairs of "all lights", 8-11 the     *)
(* four pairs of "one device", 12-13 unlock and lock, 14 temperature,      *)
(* 15 analytics, 16 `return None`.                                         *)
(***************************************************************************)
NoMatch == 16

RuleOf(s) ==
    IF s <= 3 THEN s
    ELSE IF s <= 7 THEN 4
    ELSE IF s <= 11 THEN 5
    ELSE IF s <= 13 THEN 6
    ELSE IF s = 14 THEN 7
    ELSE IF s = 15 THEN 8
    ELSE 9

\* the (action, cmd) pair a stage of a loop stands at
PairOf(s) ==
    IF RuleOf(s) = 4 THEN switch_actions[s - 3]
    ELSE IF RuleOf(s) = 5 THEN switch_actions[s - 7]
    ELSE lock_actions[s - 11]

\* the condition under which the code at stage s goes on to its device call
\* (or, for the analytics rule, to its result)
StageGuard(m, s) ==
    CASE s = 1 -> AnyIn(m, device_patterns) /\ ~Contains(m, "status")
      [] s = 2 -> AnyIn(m, all_status_patterns)
      [] s = 3 -> AnyIn(m, status_patterns)
      [] RuleOf(s) = 4 ->
            Contains(m, PairOf(s)[1]) /\ Contains(m, "all") /\ Contains(m, "light")
      [] RuleOf(s) = 5 ->
            Contains(m, PairOf(s)[1]) /\ extract_device_name(m, PairOf(s)[1]) # ""
      [] RuleOf(s) = 6 ->
            Contains(m, PairOf(s)[1]) /\ (Contains(m, "door") \/ Contains(m, "lock"))
      [] s = 14 ->
            /\ Contains(m, "temperature") \/ Contains(m, "thermostat")
            /\ FirstDigits(m) # ""
            /\ Contains(m, "set") \/ Contains(m, "to")
      [] s = 15 -> AnyIn(m, analytics_patterns)
      [] OTHER -> TRUE

\* a variant that prefers the latest pattern that matches before `return None`
NextStage_latest(m, s) ==
    CHOOSE t \in s..NoMatch :
        /\ StageGuard(m, t)
        /\ \A u \in (t + 1)..(NoMatch - 1) : ~StageGuard(m, u)
        /\ t = NoMatch => \A u \in s..(NoMatch - 1) : ~StageGuard(m, u)

\* the first stage from s on whose condition holds
NextStage(m, s) ==
    CHOOSE t \in s..NoMatch :
        /\ StageGuard(m, t)
        /\ \A u \in s..(t - 1) : ~StageGuard(m, u)

\* NextStage of every message, computed once
StageFrom ==
    [message \in Messages |-> [s \in 1..NoMatch |-> NextStage(msg_lower_of(message), s)]]

\* the `device_type` argument of the listing a stage asks for ("" for none)
ListTypeOf(s) ==
    CASE RuleOf(s) = 4 -> "light"
      [] RuleOf(s) = 6 -> "smart_lock"
      [] RuleOf(s) = 7 -> "thermostat"
      [] OTHER -> ""

\* the args dict of that listing
ListArgsOf(s) ==
    IF ListTypeOf(s) = "" THEN EmptyDict ELSE [device_type |-> ListTypeOf(s)]

(***************************************************************************)
(* The planner (Gemini generateContent) and what it may answer             *)
(***************************************************************************)

\* the parts a planner answer is built from: text, functionCall, and a part
\* that is neither
Parts ==
    { [text |-> "Sure."],
      [text |-> ""],
      [functionCall |-> [name |-> "list_devices", args |-> [device_type |-> "smart_lock"]]],
      [functionCall |-> [name |-> "send_device_command",
                         args |-> [device_id |-> "d3", command |-> "lock"]]],
      [functionCall |-> [name |-> "get_all_device_statuses", args |-> EmptyDict]],
      [functionCall |-> [name |-> "get_device_status", args |-> [device_id |-> "d1"]]],
      [functionCall |-> [name |-> "create_automation", args |-> [name |-> "Night"]]],
      [functionCall |-> [name |-> "get_analytics"]],
      [functionCall |-> [name |-> "reboot_router", args |-> EmptyDict]],
      [inlineData |-> "bytes"] }

\* the sequences over S of length n
RECURSIVE SeqsOfLen(_, _)
SeqsOfLen(S, n) ==
    IF n = 0 THEN {<<>>}
    ELSE {Append(q, x) : q \in SeqsOfLen(S, n - 1), x \in S}

PartSeqs(n) == UNION {SeqsOfLen(Parts, j) : j \in 0..n}

\* response.json() of a 200 answer with at most n parts
PlannerBodies(n) ==
    {[candidates |-> <<>>]}
        \cup {[candidates |-> <<[content |-> [parts |-> ps]]>>] : ps \in PartSeqs(n)}

\* How a planner request may end, `earlier` being the number of requests the
\* turn has sent before it.  A request that is the first one of its turn is
\* answered with every plan of up to MaxParts parts, one that follows a
\* listing of a local rule or an earlier attempt with the plans of at most
\* one part.
PlannerOutcomes(earlier) ==
    {TransportError, [status |-> 429], [status |-> 500]}
        \cup {[status |-> 200, json |-> b] :
                 b \in PlannerBodies(IF earlier = 0 THEN MaxParts ELSE 1)}

\* detail of the HTTPException of _call_gemini_optimized
BusyDetail == "AI service is busy. Please try again in a moment."
\* the text returned for an answer without candidates
NoCandidatesText == "I couldn't understand that request. Please try again."

\* a variant of the loop that collects the tool calls last part first
RECURSIVE tool_calls_last_first(_)
tool_calls_last_first(parts) ==
    IF parts = <<>> THEN <<>>
    ELSE LET part == parts[Len(parts)]
         IN  (IF "text" \notin DOMAIN part /\ "functionCall" \in DOMAIN part
              THEN <<[name |-> part.functionCall.name,
                      args |-> Get(part.functionCall, "args", EmptyDict)]>>
              ELSE <<>>) \o tool_calls_last_first(SubSeq(parts, 1, Len(parts) - 1))

\* the loop of _call_gemini_optimized over the parts: the tool calls, in order
RECURSIVE tool_calls_of(_)
tool_calls_of(parts) ==
    IF parts = <<>> THEN <<>>
    ELSE LET part == Head(parts)
         IN  (IF "text" \notin DOMAIN part /\ "functionCall" \in DOMAIN part
              THEN <<[name |-> part.functionCall.name,
                      args |-> Get(part.functionCall, "args", EmptyDict)]>>
              ELSE <<>>) \o tool_calls_of(Tail(parts))

\* the same loop: response_text, the text of the last text part ("" if none)
RECURSIVE response_text_of(_)
response_text_of(parts) ==
    IF parts = <<>> THEN ""
    ELSE LET last == parts[Len(parts)]
         IN  IF "text" \in DOMAIN last THEN last.text
             ELSE response_text_of(SubSeq(parts, 1, Len(parts) - 1))

(***************************************************************************)
(* Requests sent downstream, as they appear on the wire                    *)
(***************************************************************************)
ListRequest(device_type) == [op |-> "list", device_type |-> device_type]
StatusRequest(device_id) == [op |-> "status", device_id |-> device_id]
CommandRequest(args) ==
    [op |-> "command", device_id |-> Get(args, "device_id", "None"),
     command |-> Get(args, "command", "None"),
     payload |-> Get(args, "parameters", EmptyDict)]
PlannerRequest(contents) == [op |-> "planner", contents |-> contents]

\* the requests a tool sends when _execute_tool starts it
ToolRequests(tc) ==
    CASE tc.name = "list_devices" -> <<ListRequest(Get(tc.args, "device_type", ""))>>
      [] tc.name = "get_all_device_statuses" -> <<ListRequest("")>>
      [] tc.name = "get_device_status" -> <<StatusRequest(Get(tc.args, "device_id", "None"))>>
      [] tc.name = "send_device_command" -> <<CommandRequest(tc.args)>>
      [] OTHER -> <<>>

(***************************************************************************)
(* State                                                                   *)
(***************************************************************************)
Procs == {1, 2}
Refs == 1..(Cardinality(ConvIds) + Cardinality(Procs) + 1)

VARIABLES
    conversations,   \* the module-level dict: conversation id -> list (a heap
                     \* reference), 0 when the id is not a key
    heap,            \* the list objects: reference -> sequence of entries
    pc,              \* per handler: where the chat coroutine is suspended
    message,         \* per handler: the `message` argument
    conversation_id, \* per handler: the `conversation_id` argument
    history,         \* per handler: the local `history`, a heap reference
    loc,             \* per handler: the other locals of chat and its callees
    response,        \* per handler: the ChatResponse returned
    local_result,    \* per handler: what _try_local_handling gave chat:
                     \* "matched" (a response), "none" (None), "raised", or
                     \* "" while it runs
    planner_calls,   \* per handler: the calls of _call_gemini_optimized in this turn
    net,             \* per handler: the downstream requests sent in this turn
    answers,         \* per handler: how the device-service calls of this turn
                     \* ended: index of the request in net -> its outcome
    attempts,        \* per handler: the planner requests of this turn that ended:
                     \* the outcome o of each and the delay slept after it (0: none)
    before,          \* per handler: the stored history when the turn began
    turn,            \* per handler: the number of its turn
    said,            \* per conversation id: every entry that was appended to a
                     \* history list of the id, in the order of the appends
    turns,           \* the number of turns started
    scope            \* what the behaviour explores; never changes

vars ==
    <<conversations, heap, pc, message, conversation_id, history, loc, response,
      local_result, planner_calls, net, answers, attempts, before, turn, turns,
      said, scope>>

NoResponse == [pending |-> TRUE]

LocInit ==
    [stage |-> 0, devices_result |-> EmptyDict, device |-> 0, i |-> 0,
     actions_taken |-> <<>>, attempt |-> 0, retry_delay |-> 0, contents |-> <<>>,
     tool_calls |-> <<>>, response_text |-> "", idx |-> 0,
     gdevices |-> <<>>, fetched |-> EmptyDict, order |-> <<>>]

InFlight(p) == pc[p] \notin {"idle", "done"}

\* the entries chat appends; `turn` tells the turns apart
UserEntry(text, t) == [role |-> "user", text |-> text, turn |-> t]
ModelEntry(text, t) == [role |-> "model", text |-> text, turn |-> t]

\* a truncation that keeps the oldest entries
LastN_oldest(lst, n) == IF Len(lst) <= n THEN lst ELSE SubSeq(lst, 1, n)

\* lst[-n:]
LastN(lst, n) == IF Len(lst) <= n THEN lst ELSE SubSeq(lst, Len(lst) - n + 1, Len(lst))

\* the list stored for conversation id c, <<>> when c is not a key
Stored(c) == IF conversations[c] = 0 THEN <<>> ELSE heap[conversations[c]]

\* heap references in use, a fresh one, and the heap without the garbage
UsedRefs(cv, hs) == ({cv[c] : c \in ConvIds} \cup {hs[q] : q \in Procs}) \ {0}
FreshRef(cv, hs) ==
    CHOOSE r \in Refs \ UsedRefs(cv, hs) : \A r2 \in Refs \ UsedRefs(cv, hs) : r <= r2
Collect(hp, cv, hs) == [r \in Refs |-> IF r \in UsedRefs(cv, hs) THEN hp[r] ELSE <<>>]

\* the history of k earlier turns that were answered by the lock rule
RECURSIVE PriorHistory(_)
PriorHistory(k) ==
    IF k = 0 THEN <<>>
    ELSE PriorHistory(k - 1)
           \o << UserEntry("lock the door", k),
                 ModelEntry("Done! I've locked the Front Door.", k) >>

(***************************************************************************)
(* chat: how a step of the coroutine ends.  k is the handler's view of the *)
(* store at that point of the step: its conversation id c, its `history`   *)
(* reference ref, the dict cv, the heap hp and its turn number t.          *)
(***************************************************************************)
Now(p) ==
    [c |-> conversation_id[p], ref |-> history[p], cv |-> conversations,
     hp |-> heap, t |-> turn[p], log |-> said]

\* the coroutine is suspended at `label`, awaiting a downstream answer
Suspend(p, k, label, lc, nt) ==
    /\ pc' = [pc EXCEPT ![p] = label]
    /\ loc' = [loc EXCEPT ![p] = lc]
    /\ net' = [net EXCEPT ![p] = nt]
    /\ conversations' = k.cv
    /\ heap' = k.hp
    /\ history' = [history EXCEPT ![p] = k.ref]
    /\ response' = [response EXCEPT ![p] = NoResponse]
    /\ said' = k.log

\* chat, from `history.append({"role": "model", ...})` to its `return ChatResponse(...)`
Return(p, k, response_text, actions_taken, nt) ==
    LET appended == Append(k.hp[k.ref], ModelEntry(response_text, k.t))
        hp1      == [k.hp EXCEPT ![k.ref] = appended]
        cut      == Len(appended) > HistoryLimit
        new      == FreshRef(k.cv, [history EXCEPT ![p] = k.ref])
        hp2      == IF cut THEN [hp1 EXCEPT ![new] = LastN(appended, HistoryLimit)] ELSE hp1
        cv1      == [k.cv EXCEPT ![k.c] = IF cut THEN new ELSE k.ref]
        hs1      == [history EXCEPT ![p] = 0]
    IN  /\ conversations' = cv1
        /\ heap' = Collect(hp2, cv1, hs1)
        /\ history' = hs1
        /\ pc' = [pc EXCEPT ![p] = "done"]
        /\ loc' = [loc EXCEPT ![p] = LocInit]
        /\ net' = [net EXCEPT ![p] = nt]
        /\ response' = [response EXCEPT ![p] =
                           [conversation_id |-> k.c, message |-> response_text,
                            actions_taken |-> actions_taken, error |-> <<>>]]
        /\ said' = [k.log EXCEPT ![k.c] = Append(@, ModelEntry(response_text, k.t))]

\* a variant of the `except` clauses that answers without the error
ReturnError_silent(p, k, error, nt) ==
    LET hs1 == [history EXCEPT ![p] = 0]
    IN  /\ conversations' = k.cv
        /\ heap' = Collect(k.hp, k.cv, hs1)
        /\ history' = hs1
        /\ pc' = [pc EXCEPT ![p] = "done"]
        /\ loc' = [loc EXCEPT ![p] = LocInit]
        /\ net' = [net EXCEPT ![p] = nt]
        /\ response' = [response EXCEPT ![p] =
                           [conversation_id |-> k.c, message |-> "",
                            actions_taken |-> <<>>, error |-> <<>>]]
        /\ said' = k.log

\* chat, the two `except` clauses: the error goes into the response
ReturnError(p, k, error, nt) ==
    LET hs1 == [history EXCEPT ![p] = 0]
    IN  /\ conversations' = k.cv
        /\ heap' = Collect(k.hp, k.cv, hs1)
        /\ history' = hs1
        /\ pc' = [pc EXCEPT ![p] = "done"]
        /\ loc' = [loc EXCEPT ![p] = LocInit]
        /\ net' = [net EXCEPT ![p] = nt]
        /\ response' = [response EXCEPT ![p] =
                           [conversation_id |-> k.c, message |-> "",
                            actions_taken |-> <<>>, error |-> <<error>>]]
        /\ said' = k.log

\* the two entries every planner request starts with: the system prompt as
\* a user entry and the model's "Ready to help."
Preamble ==
    <<[role |-> "user", text |-> "You are HomeGuard AI. ...", turn |-> 0],
      [role |-> "model", text |-> "Ready to help.", turn |-> 0]>>

\* a variant that sends the whole history
planner_contents_all(history_list) == Preamble \o history_list

\* _call_gemini_optimized: `contents = [preamble...] + history[-6:]`
planner_contents(history_list) == Preamble \o LastN(history_list, HistoryWindow)

\* _try_local_handling from stage s, the first stage whose pattern matches,
\* up to its first await; the analytics rule and chat's tail need none
Proceed(p, k, m, lc, nt, s) ==
    IF s = 15
    THEN LET args   == [period |-> analytics_period(msg_lower_of(m))]
             result == tool_get_analytics(args)
         IN  Return(p, k, format_analytics(result),
                    Append(lc.actions_taken,
                           [tool |-> "get_analytics", args |-> args, result |-> result]),
                    nt)
    ELSE IF s = NoMatch
    THEN LET contents == planner_contents(k.hp[k.ref])
         IN  Suspend(p, k, "gemini_post",
                     [lc EXCEPT !.stage = s, !.attempt = 0, !.retry_delay = BaseDelay,
                                !.contents = contents],
                     Append(nt, PlannerRequest(contents)))
    ELSE Suspend(p, k, "list_devices", [lc EXCEPT !.stage = s],
                 Append(nt, ListRequest(ListTypeOf(s))))

\* chat, `local_result = await self._try_local_handling(...)` and the branch
\* on it, read off where the step left the coroutine: the local matcher has
\* returned a response or raised when the turn is over, has returned None
\* when the planner request is out, and is still running otherwise
LocalHandled(p, was, calls) ==
    /\ local_result' = [local_result EXCEPT ![p] =
          IF pc'[p] = "done"
          THEN (IF response'[p].error = <<>> THEN "matched" ELSE "raised")
          ELSE IF pc'[p] = "gemini_post" THEN "none"
          ELSE was]
    /\ planner_calls' = [planner_calls EXCEPT ![p] =
          IF pc'[p] = "gemini_post" THEN calls + 1 ELSE calls]

\* chat, from its entry to the first await
chat(p, m, c) ==
    /\ p \in scope.procs
    /\ m \in scope.messages
    /\ ~InFlight(p)
    /\ turns < scope.turns
    /\ scope.serial => \A q \in Procs : ~InFlight(q)
    /\ LET t     == turns + 1
           isnew == conversations[c] = 0
           ref   == IF isnew THEN FreshRef(conversations, history) ELSE conversations[c]
           cv    == [conversations EXCEPT ![c] = ref]
           hp    == [heap EXCEPT ![ref] = Append(IF isnew THEN <<>> ELSE @, UserEntry(m, t))]
           k     == [c |-> c, ref |-> ref, cv |-> cv, hp |-> hp, t |-> t,
                     log |-> [said EXCEPT ![c] = Append(@, UserEntry(m, t))]]
       IN  /\ message' = [message EXCEPT ![p] = m]
           /\ conversation_id' = [conversation_id EXCEPT ![p] = c]
           /\ turn' = [turn EXCEPT ![p] = t]
           /\ turns' = t
           /\ before' = [before EXCEPT ![p] = Stored(c)]
           /\ attempts' = [attempts EXCEPT ![p] = <<>>]
           /\ answers' = [answers EXCEPT ![p] = EmptyDict]
           /\ Proceed(p, k, m, LocInit, <<>>, StageFrom[m][1])
    /\ LocalHandled(p, "", 0)
    /\ UNCHANGED scope

\* request j of handler p, a call of the device service, has ended with
\* outcome o
HeardAt(p, o, j) ==
    answers' = [answers EXCEPT ![p] =
                  IF "nocall" \in DOMAIN o THEN @
                  ELSE [n \in DOMAIN @ \cup {j} |-> IF n # j THEN @[n] ELSE o]]

\* the same for the last request sent
Heard(p, o) == HeardAt(p, o, Len(net[p]))

\* what an action that is no entry of chat leaves alone
Frame == UNCHANGED <<message, conversation_id, turn, turns, before, scope>>

(***************************************************************************)
(* The local path: the awaits of _try_local_handling                       *)
(***************************************************************************)

\* the args of the send_device_command call a local rule is making
LocalCommandArgs(m, lc) ==
    LET devices == Get(lc.devices_result, "devices", <<>>)
        d       == IF RuleOf(lc.stage) = 4 THEN devices[lc.i] ELSE devices[lc.device]
    IN  IF RuleOf(lc.stage) = 7
        THEN [device_id |-> d.id, command |-> "set_temperature",
              parameters |-> [temperature |-> IntOf(FirstDigits(m))]]
        ELSE [device_id |-> d.id, command |-> PairOf(lc.stage)[2]]

\* _tool_get_all_device_statuses up to the gather: raises, returns, or is
\* left awaiting the fetches of `devices`
all_statuses_listed(o) ==
    LET devices_response == tool_list_devices(o)
        devices          == Get(devices_response, "devices", <<>>)
    IN  IF Raises(devices_response) THEN devices_response
        ELSE IF devices = <<>> THEN [statuses |-> <<>>]
        ELSE [awaiting |-> devices]

\* the fetches asyncio.gather starts, one per device, in listing order
GatherRequests(devices) ==
    [i \in 1..Len(devices) |->
        [op |-> "status", device_id |-> devices[i].id, via |-> "get_status"]]

\* a variant of the gather that returns the results as the fetches complete
gathered_as_completed(fetched, order) ==
    [statuses |-> [i \in 1..Len(order) |-> fetched[order[i]]], count |-> Len(order)]

\* the list _tool_get_all_device_statuses returns: asyncio.gather orders the
\* results by its arguments, whatever the order of completion
gathered(fetched, order) ==
    [statuses |-> [i \in 1..Len(order) |-> fetched[i]], count |-> Len(order)]

\* the answer to the listing a local rule awaits
list_devices_returns(p) ==
    /\ pc[p] = "list_devices"
    /\ \E o \in ListOutcomes(ListTypeOf(loc[p].stage)) :
       /\ Heard(p, o)
       /\ LET s       == loc[p].stage
             lc      == loc[p]
             nt      == net[p]
             k       == Now(p)
             m       == msg_lower_of(message[p])
             result  == tool_list_devices(o)
             devices == Get(result, "devices", <<>>)
             listed  == all_statuses_listed(o)
             d3      == find_status_device(devices, m)
             d5      == find_device_by_name(devices, extract_device_name(m, PairOf(s)[1]))
             command(lc1) == Suspend(p, k, "send_device_command", lc1,
                                     Append(nt, CommandRequest(LocalCommandArgs(m, lc1))))
             fall    == Proceed(p, k, message[p], lc, nt, StageFrom[message[p]][s + 1])
         IN  IF Raises(result) THEN ReturnError(p, k, result.raise, nt)
             ELSE CASE RuleOf(s) = 1 ->
                         Return(p, k, format_device_list(result),
                                <<[tool |-> "list_devices", args |-> EmptyDict,
                                   result |-> result]>>, nt)
                    [] RuleOf(s) = 2 ->
                         IF "awaiting" \in DOMAIN listed
                         THEN Suspend(p, k, "gather", [lc EXCEPT !.gdevices = devices],
                                      nt \o GatherRequests(devices))
                         ELSE Return(p, k, format_all_device_statuses(listed),
                                     <<[tool |-> "get_all_device_statuses",
                                        args |-> EmptyDict, result |-> listed]>>, nt)
                    [] RuleOf(s) = 3 ->
                         IF d3 # 0
                         THEN Suspend(p, k, "get_device_status",
                                      [lc EXCEPT !.devices_result = result, !.device = d3],
                                      Append(nt, StatusRequest(devices[d3].id)))
                         ELSE fall
                    [] RuleOf(s) = 4 ->
                         IF devices # <<>>
                         THEN command([lc EXCEPT !.devices_result = result, !.i = 1])
                         ELSE fall
                    [] RuleOf(s) = 5 ->
                         IF d5 # 0
                         THEN command([lc EXCEPT !.devices_result = result, !.device = d5])
                         ELSE fall
                    [] OTHER ->
                         IF devices # <<>>
                         THEN command([lc EXCEPT !.devices_result = result, !.device = 1])
                         ELSE fall
    /\ LocalHandled(p, local_result[p], planner_calls[p])
    /\ Frame
    /\ UNCHANGED attempts

\* the device of devices_result after _format_single_device_status has run:
\* `config.update(...)` changed the config dict of that very device
device_after_format(device, status_result) ==
    IF "config" \in DOMAIN device
    THEN [device EXCEPT !.config = merged_config(device, status_result)]
    ELSE device

\* the answer to the status fetch of the single-device status rule
get_device_status_returns(p) ==
    /\ pc[p] = "get_device_status"
    /\ LET lc      == loc[p]
           devices == lc.devices_result.devices
           device  == devices[lc.device]
       IN  \E o \in StatusOutcomes(device.id) :
           /\ Heard(p, o)
           /\ LET status_result == tool_get_device_status(o)
                 devices_after ==
                     [lc.devices_result EXCEPT
                        !.devices[lc.device] = device_after_format(device, status_result)]
             IN  IF Raises(status_result)
                 THEN ReturnError(p, Now(p), status_result.raise, net[p])
                 ELSE Return(p, Now(p), format_single_device_status(device, status_result),
                             <<[tool |-> "list_devices", args |-> EmptyDict,
                                result |-> devices_after],
                               [tool |-> "get_device_status",
                                args |-> [device_id |-> device.id],
                                result |-> status_result]>>, net[p])
    /\ LocalHandled(p, local_result[p], planner_calls[p])
    /\ Frame
    /\ UNCHANGED attempts

\* the text a command rule answers with
DoneText(m, lc) ==
    LET devices == lc.devices_result.devices
        cmd     == PairOf(lc.stage)[2]
        state   == IF cmd = "turn_on" THEN "on" ELSE "off"
    IN  CASE RuleOf(lc.stage) = 4 ->
               "Done! I've turned " \o state \o " all " \o ToString(Len(devices))
                 \o " light(s)."
          [] RuleOf(lc.stage) = 5 ->
               "Done! I've turned " \o state \o " the " \o devices[lc.device].name \o "."
          [] RuleOf(lc.stage) = 6 ->
               "Done! I've " \o PairOf(lc.stage)[1] \o "ed the "
                 \o devices[lc.device].name \o "."
          [] OTHER ->
               "Done! I've set the " \o devices[lc.device].name \o " to "
                 \o ToString(IntOf(FirstDigits(m))) \o " F."

\* the answer to a command a local rule awaits
send_device_command_returns(p) ==
    /\ pc[p] = "send_device_command"
    /\ \E o \in CommandOutcomes :
       /\ Heard(p, o)
       /\ LET lc         == loc[p]
             nt         == net[p]
             k          == Now(p)
             m          == msg_lower_of(message[p])
             s          == lc.stage
             args       == LocalCommandArgs(m, lc)
             cmd_result == tool_send_device_command(args, o)
             record     == [tool |-> "send_device_command", args |-> args,
                            result |-> cmd_result]
             listing    == [tool |-> "list_devices", args |-> ListArgsOf(s),
                            result |-> lc.devices_result]
             more       == [lc EXCEPT !.actions_taken = Append(@, record), !.i = @ + 1]
         IN  IF Raises(cmd_result) THEN ReturnError(p, k, cmd_result.raise, nt)
             ELSE IF RuleOf(s) = 4
             THEN IF lc.i < Len(lc.devices_result.devices)
                  THEN Suspend(p, k, "send_device_command", more,
                               Append(nt, CommandRequest(LocalCommandArgs(m, more))))
                  ELSE Return(p, k, DoneText(m, lc), more.actions_taken, nt)
             ELSE Return(p, k, DoneText(m, lc), <<listing, record>>, nt)
    /\ LocalHandled(p, local_result[p], planner_calls[p])
    /\ Frame
    /\ UNCHANGED attempts

(***************************************************************************)
(* The planner path: _call_gemini_optimized, _call_gemini_with_retry,      *)
(* _execute_tool                                                           *)
(***************************************************************************)

\* a variant of the retry loop that takes every status other than 200 for a
\* rate limit
after_attempt_any_status(attempt, o) ==
    IF IsExc(o) \/ o.status # 200
    THEN (IF attempt < max_retries - 1
          THEN (IF IsExc(o) THEN "sleep_exc" ELSE "sleep_429")
          ELSE "none")
    ELSE "response"

\* a variant of the retry loop that tries once more than its budget
after_attempt_past_budget(attempt, o) ==
    IF IsExc(o)
    THEN (IF attempt < max_retries THEN "sleep_exc" ELSE "none")
    ELSE IF o.status = 200 THEN "response"
    ELSE IF o.status = 429
    THEN (IF attempt < max_retries THEN "sleep_429" ELSE "none")
    ELSE "none"

\* _call_gemini_with_retry, one turn of its loop after the POST ended with
\* outcome o: "response" (return response), "none" (return None), or the
\* await of asyncio.sleep in the 429 branch or in the except branch
after_attempt(attempt, o) ==
    IF IsExc(o)
    THEN (IF attempt < max_retries - 1 THEN "sleep_exc" ELSE "none")
    ELSE IF o.status = 200 THEN "response"
    ELSE IF o.status = 429
    THEN (IF attempt < max_retries - 1 THEN "sleep_429" ELSE "none")
    ELSE "none"

\* a variant of the backoff without the ceiling
delay_uncapped(label, retry_delay) ==
    IF label = "sleep_429" THEN retry_delay * 2 ELSE retry_delay

\* retry_delay after the sleep: `retry_delay = min(retry_delay * 2, 60.0)` in
\* the 429 branch only
delay_after_sleep(label, retry_delay) ==
    IF label = "sleep_429"
    THEN (IF retry_delay * 2 < DelayCeiling THEN retry_delay * 2 ELSE DelayCeiling)
    ELSE retry_delay

\* _call_gemini_optimized: the error chat reports when the retry loop
\* returned None
planner_error == BusyDetail

\* what downstream outcomes the first await of a planned tool call may meet
NoCall == [nocall |-> TRUE]
ToolOutcomes(tc) ==
    CASE tc.name = "list_devices" -> ListOutcomes(Get(tc.args, "device_type", ""))
      [] tc.name = "get_all_device_statuses" -> ListOutcomes("")
      [] tc.name = "get_device_status" -> StatusOutcomes(Get(tc.args, "device_id", "None"))
      [] tc.name = "send_device_command" -> CommandOutcomes
      [] OTHER -> {NoCall}

\* the body of the try block of _execute_tool
dispatch(tool_name, args, o) ==
    CASE tool_name = "list_devices" -> tool_list_devices(o)
      [] tool_name = "get_device_status" -> tool_get_device_status(o)
      [] tool_name = "get_all_device_statuses" -> all_statuses_listed(o)
      [] tool_name = "send_device_command" -> tool_send_device_command(args, o)
      [] tool_name = "create_automation" -> tool_create_automation(args)
      [] tool_name = "get_analytics" -> tool_get_analytics(args)
      [] OTHER -> [error |-> "Unknown tool: " \o tool_name]

\* a variant of _execute_tool without its try/except
execute_tool_unguarded(tool_name, args, o) == dispatch(tool_name, args, o)

\* _execute_tool: an exception of the tool becomes an error result
execute_tool(tool_name, args, o) ==
    IF Raises(dispatch(tool_name, args, o))
    THEN [error |-> dispatch(tool_name, args, o).raise]
    ELSE dispatch(tool_name, args, o)

\* _call_gemini_optimized after a tool call has returned `result`: the
\* ActionRecord, then the next tool call or the response
AfterTool(p, k, lc, nt, result) ==
    LET tc            == lc.tool_calls[lc.idx]
        actions_taken == Append(lc.actions_taken,
                                [tool |-> tc.name, args |-> tc.args, result |-> result])
    IN  IF lc.idx < Len(lc.tool_calls)
        THEN Suspend(p, k, "execute_tool",
                     [lc EXCEPT !.actions_taken = actions_taken, !.idx = @ + 1,
                                !.gdevices = <<>>, !.fetched = EmptyDict, !.order = <<>>],
                     nt \o ToolRequests(lc.tool_calls[lc.idx + 1]))
        ELSE Return(p, k,
                    IF lc.response_text # "" THEN lc.response_text
                    ELSE generate_response_from_actions(actions_taken),
                    actions_taken, nt)

\* a variant of _call_gemini_optimized without the test for an answer with no
\* candidates: `candidates[0]` raises IndexError
Planned_unguarded(p, k, lc, nt, result) ==
    LET candidates == Get(result, "candidates", <<>>)
        parts      == Get(Get(candidates[1], "content", EmptyDict), "parts", <<>>)
        calls      == tool_calls_of(parts)
        text       == response_text_of(parts)
    IN  IF candidates = <<>> THEN ReturnError(p, k, "list index out of range", nt)
        ELSE IF calls = <<>>
        THEN Return(p, k, IF text # "" THEN text ELSE generate_response_from_actions(<<>>),
                    <<>>, nt)
        ELSE Suspend(p, k, "execute_tool",
                     [lc EXCEPT !.attempt = 0, !.retry_delay = 0, !.contents = <<>>,
                                !.tool_calls = calls, !.response_text = text, !.idx = 1],
                     nt \o ToolRequests(calls[1]))

\* _call_gemini_optimized from `result = response.json()` on
Planned(p, k, lc, nt, result) ==
    LET candidates == Get(result, "candidates", <<>>)
        parts      == Get(Get(candidates[1], "content", EmptyDict), "parts", <<>>)
        calls      == tool_calls_of(parts)
        text       == response_text_of(parts)
    IN  IF candidates = <<>> THEN Return(p, k, NoCandidatesText, <<>>, nt)
        ELSE IF calls = <<>>
        THEN Return(p, k, IF text # "" THEN text ELSE generate_response_from_actions(<<>>),
                    <<>>, nt)
        ELSE Suspend(p, k, "execute_tool",
                     [lc EXCEPT !.attempt = 0, !.retry_delay = 0, !.contents = <<>>,
                                !.tool_calls = calls, !.response_text = text, !.idx = 1],
                     nt \o ToolRequests(calls[1]))

\* the planner request ends
gemini_post_returns(p) ==
    /\ pc[p] = "gemini_post"
    /\ \E o \in PlannerOutcomes(Len(net[p]) - 1) :
         LET lc   == loc[p]
             next == after_attempt(lc.attempt, o)
             slept(d) == attempts' = [attempts EXCEPT ![p] = Append(@, [o |-> o, slept |-> d])]
         IN  IF next = "response"
             THEN Planned(p, Now(p), lc, net[p], o.json) /\ slept(0)
             ELSE IF next = "none"
             THEN ReturnError(p, Now(p), planner_error, net[p]) /\ slept(0)
             ELSE Suspend(p, Now(p), next, lc, net[p]) /\ slept(lc.retry_delay)
    /\ Frame
    /\ UNCHANGED <<local_result, planner_calls, answers>>

\* asyncio.sleep(retry_delay) is over: the next turn of the retry loop
gemini_wake(p) ==
    /\ pc[p] \in {"sleep_429", "sleep_exc"}
    /\ Suspend(p, Now(p), "gemini_post",
               [loc[p] EXCEPT !.attempt = @ + 1,
                              !.retry_delay = delay_after_sleep(pc[p], @)],
               Append(net[p], PlannerRequest(loc[p].contents)))
    /\ Frame
    /\ UNCHANGED <<attempts, local_result, planner_calls, answers>>

\* a planned tool call returns, or is left awaiting its fan-out
execute_tool_returns(p) ==
    /\ pc[p] = "execute_tool"
    /\ LET lc == loc[p]
           tc == lc.tool_calls[lc.idx]
       IN  \E o \in ToolOutcomes(tc) :
           /\ Heard(p, o)
           /\ LET result == execute_tool(tc.name, tc.args, o)
             IN  IF "awaiting" \in DOMAIN result
                 THEN Suspend(p, Now(p), "gather", [lc EXCEPT !.gdevices = result.awaiting],
                              net[p] \o GatherRequests(result.awaiting))
                 ELSE AfterTool(p, Now(p), lc, net[p], result)
    /\ Frame
    /\ UNCHANGED <<attempts, local_result, planner_calls>>

\* one fetch of the fan-out of _tool_get_all_device_statuses completes; with
\* the last one the gather returns
gather_fetch_returns(p, i) ==
    /\ pc[p] = "gather"
    /\ i \in (1..Len(loc[p].gdevices)) \ DOMAIN loc[p].fetched
    /\ \E o \in StatusOutcomes(loc[p].gdevices[i].id) :
       /\ HeardAt(p, o, Len(net[p]) - Len(loc[p].gdevices) + i)
       /\ LET lc      == loc[p]
             fetched == [j \in DOMAIN lc.fetched \cup {i} |->
                            IF j = i THEN get_status(lc.gdevices[i], o) ELSE lc.fetched[j]]
             order   == Append(lc.order, i)
             result  == gathered(fetched, order)
         IN  IF Len(order) < Len(lc.gdevices)
             THEN Suspend(p, Now(p), "gather",
                          [lc EXCEPT !.fetched = fetched, !.order = order], net[p])
             ELSE IF lc.stage = 2
             THEN Return(p, Now(p), format_all_device_statuses(result),
                         <<[tool |-> "get_all_device_statuses", args |-> EmptyDict,
                            result |-> result]>>, net[p])
             ELSE AfterTool(p, Now(p), lc, net[p], result)
    /\ IF loc[p].stage = 2
       THEN LocalHandled(p, local_result[p], planner_calls[p])
       ELSE UNCHANGED <<local_result, planner_calls>>
    /\ Frame
    /\ UNCHANGED attempts

(***************************************************************************)
(* Specifications                                                          *)
(***************************************************************************)

\* the state of the process after `sc.prior` answered turns on the conversation
InitWith(sc) ==
    /\ scope = sc
    /\ conversations = [c \in ConvIds |-> IF sc.prior = 0 THEN 0 ELSE 1]
    /\ heap = [r \in Refs |-> IF r = 1 THEN PriorHistory(sc.prior) ELSE <<>>]
    /\ turns = sc.prior
    /\ said = [c \in ConvIds |-> PriorHistory(sc.prior)]
    /\ pc = [p \in Procs |-> "idle"]
    /\ message = [p \in Procs |-> ""]
    /\ conversation_id = [p \in Procs |-> ""]
    /\ history = [p \in Procs |-> 0]
    /\ loc = [p \in Procs |-> LocInit]
    /\ response = [p \in Procs |-> NoResponse]
    /\ local_result = [p \in Procs |-> ""]
    /\ planner_calls = [p \in Procs |-> 0]
    /\ net = [p \in Procs |-> <<>>]
    /\ attempts = [p \in Procs |-> <<>>]
    /\ answers = [p \in Procs |-> EmptyDict]
    /\ before = [p \in Procs |-> <<>>]
    /\ turn = [p \in Procs |-> 0]

\* one chat turn, on a new conversation or on one whose history is full
Init ==
    \E prior \in {0, HistoryLimit \div 2} :
        InitWith([procs |-> {1}, serial |-> TRUE, turns |-> prior + 1, prior |-> prior,
                  messages |-> Messages])

Next ==
    \E p \in Procs :
        \/ \E m \in Messages, c \in ConvIds : chat(p, m, c)
        \/ list_devices_returns(p)
        \/ get_device_status_returns(p)
        \/ send_device_command_returns(p)
        \/ gemini_post_returns(p)
        \/ gemini_wake(p)
        \/ execute_tool_returns(p)
        \/ \E i \in DOMAIN loc[p].gdevices : gather_fetch_returns(p, i)

Spec == Init /\ [][Next]_vars

\* Several turns on one conversation whose history is full, all answered by
\* the device-list rule, which has one await: either strictly one after
\* another, or two handlers at a time, interleaving at their awaits
MaxTurns == 3

InitConc ==
    \E serial \in BOOLEAN :
        InitWith([procs |-> Procs, serial |-> serial,
                  turns |-> HistoryLimit \div 2 + MaxTurns, prior |-> HistoryLimit \div 2,
                  messages |-> {"What devices do I have?"}])

NextConc ==
    \E p \in Procs :
        \/ \E m \in Messages, c \in ConvIds : chat(p, m, c)
        \/ list_devices_returns(p)

SpecConc == InitConc /\ [][NextConc]_vars

\* DELETE /agent/history: `conversations.clear()`; the list a handler in
\* flight holds in `history` stays alive
clear_history ==
    /\ conversations' = [c \in ConvIds |-> 0]
    /\ heap' = Collect(heap, [c \in ConvIds |-> 0], history)
    /\ UNCHANGED <<pc, loc, history, response, local_result, planner_calls, net, answers,
                   attempts, said>>
    /\ Frame

\* Turns answered by the device-list rule, two handlers at a time, on a new
\* or a full conversation, with the history cleared at any moment
InitClear ==
    \E prior \in {0, HistoryLimit \div 2} :
        InitWith([procs |-> Procs, serial |-> FALSE,
                  turns |-> prior + MaxTurns - 1, prior |-> prior,
                  messages |-> {"What devices do I have?"}])

NextClear ==
    \/ \E p \in Procs :
          \/ \E m \in Messages, c \in ConvIds : chat(p, m, c)
          \/ list_devices_returns(p)
    \/ clear_history

SpecClear == InitClear /\ [][NextClear]_vars

(***************************************************************************)
(* Properties of a chat turn                                               *)
(***************************************************************************)

\* the planner requests of handler p's turn
PlannerRequests(p) == SelectSeq(net[p], LAMBDA r : r.op = "planner")
\* the requests of p's turn that followed its last planner request
RECURSIVE Since(_)
Since(nt) ==
    IF nt = <<>> \/ nt[Len(nt)].op = "planner" THEN <<>>
    ELSE Append(Since(SubSeq(nt, 1, Len(nt) - 1)), nt[Len(nt)])
DeviceRequests(p) == Since(net[p])

\* the last planner attempt of p's turn that has ended
LastAttempt(p) == attempts[p][Len(attempts[p])]
RateLimited(o) == ~IsExc(o) /\ o.status = 429
Answered(o) == ~IsExc(o) /\ o.status = 200

\* C1: at the end of every turn, whatever its outcome, the stored history has
\* at most 20 entries, and what it keeps of the earlier history is the most
\* recent part of it, in order, followed by the entries of this turn.
C1_HistoryBounded ==
    \A p \in Procs : pc[p] = "done" =>
        LET stored == Stored(conversation_id[p])
            old    == before[p]
        IN  /\ Len(stored) <= HistoryLimit
            /\ \E j \in 0..Len(old) :
                 /\ Len(stored) >= Len(old) - j
                 /\ SubSeq(stored, 1, Len(old) - j) = SubSeq(old, j + 1, Len(old))
                 /\ \A i \in (Len(old) - j + 1)..Len(stored) : stored[i].turn = turn[p]

\* C2: a turn that ends in an error response leaves the stored history as it
\* was before the turn; a turn that succeeds adds the user message and the
\* reply.
C2_NoPartialUpdate ==
    \A p \in Procs : pc[p] = "done" =>
        LET stored == Stored(conversation_id[p])
        IN  IF response[p].error # <<>>
            THEN stored = before[p]
            ELSE stored = LastN(before[p] \o <<UserEntry(message[p], turn[p]),
                                               ModelEntry(response[p].message, turn[p])>>,
                                HistoryLimit)

\* C3: while the lock/unlock rule handles a message that contains "unlock", the
\* command it sends is never "lock", whatever the smart_lock listings were.
C3_UnlockNeverLocks ==
    \A p \in Procs :
        (/\ pc[p] = "send_device_command"
         /\ RuleOf(loc[p].stage) = 6
         /\ Contains(msg_lower_of(message[p]), "unlock"))
            => net[p][Len(net[p])].command # "lock"

RECURSIVE DelayAt(_, _)
DelayAt(as, i) ==
    IF i = 1 THEN BaseDelay
    ELSE IF RateLimited(as[i - 1].o)
    THEN (IF 2 * DelayAt(as, i - 1) < DelayCeiling THEN 2 * DelayAt(as, i - 1)
          ELSE DelayCeiling)
    ELSE DelayAt(as, i - 1)

C5_RateLimitBackoff ==
    \A p \in Procs :
        (attempts[p] # <<>> /\ \A i \in 1..Len(attempts[p]) : RateLimited(attempts[p][i].o))
            => /\ Len(attempts[p]) <= max_retries
               /\ \A i \in 1..Len(attempts[p]) :
                    attempts[p][i].slept = <<10, 20, 40, 60, 0>>[i]
               /\ \A i \in 1..Len(attempts[p]) :
                    i < max_retries =>
                        attempts[p][i].slept
                            = (IF BaseDelay * 2^(i - 1) < DelayCeiling
                               THEN BaseDelay * 2^(i - 1) ELSE DelayCeiling)
               /\ pc[p] = "done" =>
                    /\ Len(attempts[p]) = max_retries
                    /\ Len(PlannerRequests(p)) = max_retries
                    /\ response[p].error
                         = <<"AI service is busy. Please try again in a moment.">>
                    /\ response[p].message = "" /\ response[p].actions_taken = <<>>

\* a turn that ended after five attempts, all answered with 429
C5_Witness ==
    \E p \in Procs :
        /\ pc[p] = "done"
        /\ Len(attempts[p]) = max_retries
        /\ \A i \in 1..Len(attempts[p]) : RateLimited(attempts[p][i].o)

\* C6: a turn whose planner call failed for a reason other than rate limiting
\* (its last attempt ended with an exception or a status other than 200 and
\* 429) does not carry the error that rate-limit exhaustion carries.
C6_DistinctPlannerErrors ==
    \A p \in Procs :
        (/\ pc[p] = "done"
         /\ response[p].error # <<>>
         /\ attempts[p] # <<>>
         /\ ~RateLimited(LastAttempt(p).o))
            => response[p].error # <<BusyDetail>>

\* C7: a turn answered by a local rule sends no planner request; every other
\* turn invokes the planner client exactly once; an attempt answered with 200
\* is the last planner request of the turn.
C7_PlannerOnlyWhenUnmatched ==
    \A p \in Procs :
        /\ pc[p] = "done" /\ local_result[p] = "matched" => PlannerRequests(p) = <<>>
        /\ pc[p] = "done" /\ local_result[p] # "matched" => planner_calls[p] = 1
        /\ \A i \in 1..Len(attempts[p]) :
             Answered(attempts[p][i].o) =>
                 /\ i = Len(attempts[p])
                 /\ Len(PlannerRequests(p)) = Len(attempts[p])

\* the functionCall parts of a planner answer, in the order of the answer
FunctionCalls(json) ==
    IF Get(json, "candidates", <<>>) = <<>> THEN <<>>
    ELSE SelectSeq(json.candidates[1].content.parts,
                   LAMBDA part : "functionCall" \in DOMAIN part)

\* the requests, fan-out fetches aside, that the first n of the calls send
RECURSIVE FirstRequests(_, _)
FirstRequests(calls, n) ==
    IF n = 0 THEN <<>>
    ELSE FirstRequests(calls, n - 1)
           \o SelectSeq(ToolRequests([name |-> calls[n].functionCall.name,
                                      args |-> Get(calls[n].functionCall, "args", EmptyDict)]),
                        LAMBDA r : r.op # "status")

\* C8: once the planner has answered with 200, the tool calls run one at a
\* time in the order of the functionCall parts of the answer: the records
\* taken so far are those of the first calls, in order, the call in progress
\* is the next one, each call has sent its request once, and the response
\* carries one record per functionCall part, with or without a text part.
C8_ToolCallsInOrder ==
    \A p \in Procs :
        (attempts[p] # <<>> /\ Answered(LastAttempt(p).o)) =>
            LET calls   == FunctionCalls(LastAttempt(p).o.json)
                records == IF pc[p] = "done" THEN response[p].actions_taken
                           ELSE loc[p].actions_taken
                running == IF pc[p] = "done" THEN 0 ELSE 1
            IN  /\ Len(records) + running <= Len(calls)
                /\ pc[p] = "done" => Len(records) = Len(calls)
                /\ pc[p] # "done" => pc[p] \in {"execute_tool", "gather"}
                                      /\ loc[p].idx = Len(records) + 1
                /\ \A i \in 1..Len(records) :
                     /\ records[i].tool = calls[i].functionCall.name
                     /\ records[i].args = Get(calls[i].functionCall, "args", EmptyDict)
                /\ SelectSeq(DeviceRequests(p), LAMBDA r : r.op # "status")
                     = FirstRequests(calls, Len(records) + running)

\* a planner turn that ended with the records of two different tools
C8_Witness ==
    \E p \in Procs :
        /\ pc[p] = "done"
        /\ attempts[p] # <<>>
        /\ Len(response[p].actions_taken) = 2
        /\ response[p].actions_taken[1].tool # response[p].actions_taken[2].tool
        /\ DeviceRequests(p) # <<>>

\* the tools that send a request when they start
CallingTools ==
    {"list_devices", "get_device_status", "get_all_device_statuses", "send_device_command"}

\* C9: _execute_tool returns a result for every tool name and every outcome
\* of the downstream call and never raises: an exception of the downstream
\* call gives a result {"error": ...}, a name outside the six registered tools
\* gives the "Unknown tool" error result and sends no request; so no record of
\* the planner path holds a raised exception and a turn that the planner
\* answered never ends in an error.
C9_ExecuteToolNeverRaises ==
    \A p \in Procs :
        /\ pc[p] = "execute_tool" =>
             LET tc == loc[p].tool_calls[loc[p].idx]
             IN  /\ \A o \in ToolOutcomes(tc) :
                      LET r == execute_tool(tc.name, tc.args, o)
                      IN  /\ ~Raises(r)
                          /\ IsExc(o) => r = [error |-> o.exc]
                 /\ tc.name \notin RegisteredTools =>
                      /\ execute_tool(tc.name, tc.args, NoCall)
                           = [error |-> "Unknown tool: " \o tc.name]
                      /\ ToolRequests(tc) = <<>>
        /\ \A i \in 1..Len(loc[p].actions_taken) : ~Raises(loc[p].actions_taken[i].result)
        /\ (pc[p] = "done" /\ attempts[p] # <<>> /\ Answered(LastAttempt(p).o)) =>
             /\ response[p].error = <<>>
             /\ \A i \in 1..Len(response[p].actions_taken) :
                  LET rec == response[p].actions_taken[i]
                  IN  /\ ~Raises(rec.result)
                      /\ rec.tool \notin RegisteredTools =>
                           rec.result = [error |-> "Unknown tool: " \o rec.tool]
             /\ (\A i \in 1..Len(response[p].actions_taken) :
                    response[p].actions_taken[i].tool \notin CallingTools)
                  => DeviceRequests(p) = <<>>

\* a planner turn that ran an unknown tool and a tool whose request met a
\* transport exception
C9_Witness ==
    \E p \in Procs :
        /\ pc[p] = "done"
        /\ attempts[p] # <<>>
        /\ Len(response[p].actions_taken) = 2
        /\ \E i, j \in 1..2 :
             /\ response[p].actions_taken[i].tool \notin RegisteredTools
             /\ response[p].actions_taken[j].tool \in CallingTools
             /\ response[p].actions_taken[j].result = [error |-> TransportError.exc]

\* C10: a turn ends in an error response only when the planner call was
\* exhausted; a failed device-service call never does that.
C10_DeviceFailuresRecovered ==
    \A p \in Procs :
        (pc[p] = "done" /\ response[p].error # <<>>)
            => attempts[p] # <<>> /\ ~Answered(LastAttempt(p).o)

\* the planner call of p's turn returned the exhausted signal
Exhausted(p) == attempts[p] # <<>> /\ ~Answered(LastAttempt(p).o)

\* a device-service call that the local matcher made itself, outside
\* get_status, ended with an exception, which reached chat
LocalCallRaised(p) ==
    /\ planner_calls[p] = 0
    /\ net[p] # <<>>
    /\ "via" \notin DOMAIN net[p][Len(net[p])]
    /\ Len(net[p]) \in DOMAIN answers[p]
    /\ IsExc(answers[p][Len(net[p])])

\* C11: every turn that has ended has returned a ChatResponse; its error field
\* is set exactly when the planner call was exhausted or an exception reached
\* chat, and then the message is empty and there are no ActionRecords.
C11_ErrorFieldExact ==
    \A p \in Procs : pc[p] = "done" =>
        /\ DOMAIN response[p] = {"conversation_id", "message", "actions_taken", "error"}
        /\ response[p].conversation_id = conversation_id[p]
        /\ Len(response[p].error) <= 1
        /\ response[p].error # <<>> <=> (Exhausted(p) \/ LocalCallRaised(p))
        /\ response[p].error # <<>> =>
             response[p].message = "" /\ response[p].actions_taken = <<>>

\* a turn that ended with the error of an exception of a device-service call,
\* and never asked the planner
C11_Witness ==
    \E p \in Procs :
        /\ pc[p] = "done"
        /\ LocalCallRaised(p)
        /\ response[p].error = <<TransportError.exc>>

\* the requests of a turn that followed its last device listing
RECURSIVE SinceListing(_)
SinceListing(nt) ==
    IF nt = <<>> \/ nt[Len(nt)].op = "list" THEN <<>>
    ELSE Append(SinceListing(SubSeq(nt, 1, Len(nt) - 1)), nt[Len(nt)])

\* the commands the all-lights rule is to send for the listing `lights`
AllLightsCommands(lights, cmd) ==
    [j \in 1..Len(lights) |->
        CommandRequest([device_id |-> lights[j].id, command |-> cmd])]

\* C12: when a turn handled by the "turn on/off all lights" rule, whose
\* type=light listing gave the non-empty list L, ends, one command has been
\* sent per device of L, in the order of L, each with the command of the
\* matched action, and the response reports the count Len(L) with one
\* ActionRecord per device.
C12_OneCommandPerLight ==
    [][\A p \in Procs :
         (pc[p] = "send_device_command" /\ RuleOf(loc[p].stage) = 4 /\ pc'[p] = "done") =>
             LET lights == loc[p].devices_result.devices
                 cmd    == PairOf(loc[p].stage)[2]
                 state  == IF cmd = "turn_on" THEN "on" ELSE "off"
             IN  /\ SinceListing(net'[p]) = AllLightsCommands(lights, cmd)
                 /\ response'[p].message
                      = "Done! I've turned " \o state \o " all "
                          \o ToString(Len(lights)) \o " light(s)."
                 /\ Len(response'[p].actions_taken) = Len(lights)
                 /\ \A j \in 1..Len(lights) :
                      /\ response'[p].actions_taken[j].tool = "send_device_command"
                      /\ response'[p].actions_taken[j].args
                           = [device_id |-> lights[j].id, command |-> cmd]]_vars

\* the ActionRecords of p's turn so far, in the state after a step
RecordsAfter(p) ==
    IF pc'[p] = "done" THEN response'[p].actions_taken ELSE loc'[p].actions_taken

\* C13: when the last fetch of the fan-out of get_all_device_statuses
\* completes, whatever the order in which the fetches completed and whichever
\* of them failed, the tool returns one entry per listed device, the i-th for
\* the i-th device: the body of its fetch if that answered 200, and an error
\* entry naming that device otherwise.
C13_GatherKeepsListingOrder ==
    [][\A p \in Procs :
         (pc[p] = "gather" /\ pc'[p] # "gather") =>
             LET devices == loc[p].gdevices
                 base    == Len(net[p]) - Len(devices)
                 record  == RecordsAfter(p)[Len(RecordsAfter(p))]
                 entries == record.result.statuses
             IN  /\ record.tool = "get_all_device_statuses"
                 /\ Len(entries) = Len(devices)
                 /\ record.result.count = Len(devices)
                 /\ \A i \in 1..Len(devices) :
                      LET o == answers'[p][base + i]
                      IN  /\ net[p][base + i].device_id = devices[i].id
                          /\ IF Answered(o)
                             THEN entries[i] = o.json
                             ELSE /\ entries[i].name = devices[i].name
                                  /\ "error" \in DOMAIN entries[i]
                                  /\ entries[i].status
                                       = (IF IsExc(o) THEN "error" ELSE "unknown")]_vars

\* a turn has ended with the result of a fan-out over two devices in which
\* the fetch of the second device failed and that of the first did not
C13_Witness ==
    \E p \in Procs :
        /\ pc[p] = "done"
        /\ response[p].error = <<>>
        /\ \E n \in 1..Len(response[p].actions_taken) :
             LET record == response[p].actions_taken[n]
             IN  /\ record.tool = "get_all_device_statuses"
                 /\ "count" \in DOMAIN record.result
                 /\ record.result.count = 2
                 /\ "error" \notin DOMAIN record.result.statuses[1]
                 /\ "error" \in DOMAIN record.result.statuses[2]

\* p's turn asked "What devices do I have?" and the device directory answered
\* its listing with an empty list
EmptyDirectoryTurn(p) ==
    /\ pc[p] = "done"
    /\ message[p] = "What devices do I have?"
    /\ 1 \in DOMAIN answers[p]
    /\ answers[p][1] = [status |-> 200, json |-> [devices |-> <<>>]]

\* C14: for "What devices do I have?" with an empty device directory the
\* response message is "You don't have any devices registered yet." and the
\* action list is empty.
C14_EmptyDirectoryNoActions ==
    \A p \in Procs : EmptyDirectoryTurn(p) =>
        /\ response[p].message = "You don't have any devices registered yet."
        /\ response[p].actions_taken = <<>>

\* C14, amended: for "What devices do I have?" with an empty device directory
\* the response has no error, its message is "You don't have any devices
\* registered yet.", and its action list holds exactly one ActionRecord, that
\* of the list_devices call with empty arguments and the empty listing as
\* result; the turn sent the one listing request and nothing to the planner.
C14_EmptyDirectoryOneRecord ==
    \A p \in Procs : EmptyDirectoryTurn(p) =>
        /\ response[p].error = <<>>
        /\ response[p].message = "You don't have any devices registered yet."
        /\ response[p].actions_taken
             = <<[tool |-> "list_devices", args |-> EmptyDict,
                  result |-> [devices |-> <<>>]]>>
        /\ net[p] = <<ListRequest("")>>

\* such a turn has ended
C14_Witness == \E p \in Procs : EmptyDirectoryTurn(p) /\ response[p].error = <<>>

\* p's turn was answered by the analytics rule
AnalyticsTurn(p) ==
    /\ pc[p] = "done"
    /\ planner_calls[p] = 0
    /\ Len(response[p].actions_taken) = 1
    /\ response[p].actions_taken[1].tool = "get_analytics"

\* what the message of p's turn says about the period
Mentions(p, word) == Contains(Lower(message[p]), word)

\* C15: the period passed to get_analytics is "day" when the message contains
\* neither "week" nor "month", "week" when it contains only "week", and
\* "month" whenever it contains "month", also when it contains "week" too.
C15_MonthWins ==
    \A p \in Procs : AnalyticsTurn(p) =>
        response[p].actions_taken[1].args.period
            = (IF Mentions(p, "month") THEN "month"
               ELSE IF Mentions(p, "week") THEN "week"
               ELSE "day")

\* C15, amended: every message whose first matching rule is the analytics rule
\* is answered by it with one get_analytics record; the period is "day" when
\* the message contains neither "week" nor "month", "month" when it contains
\* only "month", and "week" whenever it contains "week", also when it
\* contains "month" too; the result carries that period.
C15_WeekWins ==
    \A p \in Procs :
        /\ (pc[p] = "done" /\ StageFrom[message[p]][1] = 15) => AnalyticsTurn(p)
        /\ AnalyticsTurn(p) =>
             LET record == response[p].actions_taken[1]
             IN  /\ record.args.period
                      = (IF Mentions(p, "week") THEN "week"
                         ELSE IF Mentions(p, "month") THEN "month"
                         ELSE "day")
                 /\ DOMAIN record.args = {"period"}
                 /\ record.result.period = record.args.period
                 /\ PlannerRequests(p) = <<>>

\* a turn whose message contains both "week" and "month" was answered with
\* the period "week"
C15_Witness ==
    \E p \in Procs :
        /\ AnalyticsTurn(p)
        /\ Mentions(p, "week") /\ Mentions(p, "month")
        /\ response[p].actions_taken[1].args.period = "week"

\* the parts of the planner answer that p's turn received, <<>> if it has no
\* candidates
AnswerParts(p) ==
    LET json == LastAttempt(p).o.json
    IN  IF Get(json, "candidates", <<>>) = <<>> THEN <<>>
        ELSE json.candidates[1].content.parts

\* p's turn has ended on the planner path with an answer that has candidates
\* and no text other than empty text
TextlessPlan(p) ==
    /\ pc[p] = "done"
    /\ attempts[p] # <<>>
    /\ Answered(LastAttempt(p).o)
    /\ Get(LastAttempt(p).o.json, "candidates", <<>>) # <<>>
    /\ \A i \in 1..Len(AnswerParts(p)) :
         "text" \in DOMAIN AnswerParts(p)[i] => AnswerParts(p)[i].text = ""

\* C16: when the planner answer has no text, or only empty text, the response
\* message is rendered from the ActionRecords: the fragments of the records in
\* execution order joined by a blank line, "Done!" when no record has a
\* fragment, never the empty string; for a single list_devices call it is the
\* device-list rendering of the call's result; with no ActionRecords it is the
\* fixed fallback string.
C16_RenderedFromRecords ==
    \A p \in Procs : TextlessPlan(p) =>
        LET records == response[p].actions_taken
            frs     == Fragments(records)
        IN  /\ response[p].error = <<>>
            /\ response[p].message # ""
            /\ Len(records) = Len(FunctionCalls(LastAttempt(p).o.json))
            /\ records = <<>> =>
                 response[p].message
                   = "I'm not sure how to help with that. Try asking about your devices or their status."
            /\ records # <<>> =>
                 response[p].message
                   = (IF frs = <<>> THEN "Done!"
                      ELSE IF Len(frs) = 1 THEN frs[1]
                      ELSE IF Len(frs) = 2 THEN frs[1] \o "\n\n" \o frs[2]
                      ELSE Join(frs, "\n\n"))
            /\ (Len(records) = 1 /\ records[1].tool = "list_devices") =>
                 response[p].message = format_device_list(records[1].result)

\* a turn ended with the rendering of two records whose fragments differ
C16_Witness ==
    \E p \in Procs :
        /\ TextlessPlan(p)
        /\ Len(response[p].actions_taken) = 2
        /\ Len(Fragments(response[p].actions_taken)) = 2
        /\ Fragments(response[p].actions_taken)[1] # Fragments(response[p].actions_taken)[2]

\* p's turn has ended after a planner answer with status 200 that has no
\* candidates, or whose first candidate has no part with text or functionCall
MalformedPlan(p) ==
    /\ pc[p] = "done"
    /\ attempts[p] # <<>>
    /\ Answered(LastAttempt(p).o)
    /\ \A i \in 1..Len(AnswerParts(p)) :
         /\ "text" \notin DOMAIN AnswerParts(p)[i]
         /\ "functionCall" \notin DOMAIN AnswerParts(p)[i]

\* C17: a planner answer with no candidates, or with no recognizable part,
\* does not fail the turn: the response has no error, its message is a fixed
\* string ("I couldn't understand that request. Please try again." without
\* candidates, "I'm not sure how to help with that. ..." without recognizable
\* parts), its action list is empty, and the user message and that reply are
\* appended to the history as on a successful turn.
C17_MalformedPlanDegrades ==
    \A p \in Procs : MalformedPlan(p) =>
        /\ response[p].error = <<>>
        /\ response[p].actions_taken = <<>>
        /\ response[p].message
             = (IF Get(LastAttempt(p).o.json, "candidates", <<>>) = <<>>
                THEN "I couldn't understand that request. Please try again."
                ELSE "I'm not sure how to help with that. Try asking about your devices or their status.")
        /\ DeviceRequests(p) = <<>>
        /\ Stored(conversation_id[p])
             = LastN(before[p] \o <<UserEntry(message[p], turn[p]),
                                    ModelEntry(response[p].message, turn[p])>>,
                     HistoryLimit)

\* a turn ended after a planner answer without candidates
C17_Witness ==
    \E p \in Procs :
        /\ MalformedPlan(p)
        /\ Get(LastAttempt(p).o.json, "candidates", <<>>) = <<>>
        /\ response[p].error = <<>>

\* a word longer than 2 characters of the device's name occurs in the message
Qualifies(device, msg_lower) ==
    \E word \in {Split(Lower(device.name))[k] : k \in 1..Len(Split(Lower(device.name)))} :
        Len(word) > 2 /\ Contains(msg_lower, word)

\* the devices of the listing that ended with outcome o
ListedBy(o) == IF Answered(o) THEN Get(o.json, "devices", <<>>) ELSE <<>>

RECURSIVE IsSubsequence(_, _)
IsSubsequence(a, b) ==
    IF a = <<>> THEN TRUE
    ELSE IF b = <<>> THEN FALSE
    ELSE IF Head(a) = Head(b) THEN IsSubsequence(Tail(a), Tail(b))
    ELSE IsSubsequence(a, Tail(b))

\* `a` is the end of `b`
IsSuffix(a, b) == Len(a) <= Len(b) /\ a = LastN(b, Len(a))

\* the entries of the id that are still within the window of the newest
\* HistoryLimit appends
InWindow(c) == {i \in 1..Len(said[c]) : Len(said[c]) - i < HistoryLimit}

Missing(c) == {i \in InWindow(c) : \A j \in 1..Len(Stored(c)) : Stored(c)[j] # said[c][i]}

\* C19: the stored history only ever holds entries that were appended to the
\* conversation, in the order of their appends; and when the turns on an id
\* run strictly one after another, the stored history is the end of all that
\* was appended and no entry is missing from it while fewer than 20 entries
\* were appended after it.  (That interleaving turns can lose such an entry is
\* the state C19_Witness.)
C19_SerialTurnsLoseNothing ==
    \A c \in ConvIds :
        /\ IsSubsequence(Stored(c), said[c])
        /\ scope.serial => /\ IsSuffix(Stored(c), said[c])
                           /\ Missing(c) = {}

\* two handlers interleaved, all turns have finished, and the reply of a turn
\* is absent from the stored history although fewer than 20 entries were
\* appended after it
C19_Witness ==
    /\ ~scope.serial
    /\ turns = scope.turns
    /\ \A p \in Procs : ~InFlight(p)
    /\ \E c \in ConvIds : \E i \in Missing(c) : said[c][i].role = "model"

\* the handler is suspended on an await that can end: a downstream call
\* that has outcomes, a backoff wait, or a gather with a fetch still pending
CanResume(p) ==
    CASE pc[p] = "list_devices" -> ListOutcomes(ListTypeOf(loc[p].stage)) # {}
      [] pc[p] = "get_device_status" ->
            /\ loc[p].device \in DOMAIN loc[p].devices_result.devices
            /\ StatusOutcomes(loc[p].devices_result.devices[loc[p].device].id) # {}
      [] pc[p] = "send_device_command" -> CommandOutcomes # {}
      [] pc[p] = "gemini_post" -> PlannerOutcomes(Len(net[p]) - 1) # {}
      [] pc[p] \in {"sleep_429", "sleep_exc"} -> TRUE
      [] pc[p] = "execute_tool" ->
            /\ loc[p].idx \in DOMAIN loc[p].tool_calls
            /\ ToolOutcomes(loc[p].tool_calls[loc[p].idx]) # {}
      [] pc[p] = "gather" ->
            \E i \in (1..Len(loc[p].gdevices)) \ DOMAIN loc[p].fetched :
                StatusOutcomes(loc[p].gdevices[i].id) # {}
      [] OTHER -> FALSE

\* the awaits of the turn so far: the requests sent, the answers of the device
\* service, the planner attempts that ended and the tool calls begun
Awaits(p) ==
    Len(net[p]) + Cardinality(DOMAIN answers[p]) + Len(attempts[p]) + loc[p].idx

LongestListing ==
    LET all  == UNION {Listings(t) : t \in {"light", "smart_lock", "thermostat", ""}}
        lens == {Len(l) : l \in all}
    IN  CHOOSE n \in lens : \A m \in lens : m <= n

\* each planner attempt is a request and its end; each local rule and each
\* planned tool call is at most a listing and one more call for each listed
\* device, each a request and its answer
AwaitsBound == 2 * max_retries + (NoMatch + MaxParts) * (3 + 2 * LongestListing)

\* C20: every chat turn returns a response, provided each downstream call and
\* each backoff wait ends: the retry loop sends at most max_retries planner
\* requests in a turn, after which the turn has an answer or the exhausted
\* signal; a handler that is in flight always has an await that can end;
\* every await that ends either ends the turn or adds to the awaits of the
\* turn, and a turn never has more than AwaitsBound of them.
C20_TurnTerminates ==
    /\ [](\A p \in Procs :
            /\ Len(PlannerRequests(p)) <= max_retries
            /\ Len(attempts[p]) <= Len(PlannerRequests(p))
            /\ (pc[p] = "done" /\ attempts[p] # <<>>) =>
                   \/ Answered(LastAttempt(p).o)
                   \/ response[p].error = <<planner_error>>)
    /\ [](\A p \in Procs : /\ InFlight(p) => CanResume(p)
                            /\ Awaits(p) <= AwaitsBound)
    /\ [][\A p \in Procs :
            InFlight(p) => \/ pc'[p] = "done"
                           \/ Awaits(p)' > Awaits(p)
                           \/ UNCHANGED <<pc[p], loc[p], net[p], answers[p], attempts[p]>>]_vars

\* a turn is over whose planner requests were all rate limited or failed:
\* max_retries requests were sent and the turn reports the exhausted signal
C20_Witness ==
    \E p \in Procs :
        /\ pc[p] = "done"
        /\ Len(PlannerRequests(p)) = max_retries
        /\ Len(attempts[p]) = max_retries
        /\ \E i, j \in 1..max_retries : /\ RateLimited(attempts[p][i].o)
                                         /\ IsExc(attempts[p][j].o)
        /\ response[p].error = <<planner_error>>

\* C21: for the message "set temperature to 70" and a non-empty thermostat
\* listing, when the turn ends after the command, exactly one
\* send_device_command call was issued since the listing, to the first
\* thermostat of the listing, with command set_temperature and parameters
\* {temperature: 70}, and the response contains that device's name and 70.
C21_TemperatureToFirstThermostat ==
    [][\A p \in Procs :
         (/\ message[p] = "set temperature to 70"
          /\ pc[p] = "send_device_command" /\ RuleOf(loc[p].stage) = 7
          /\ pc'[p] = "done") =>
             LET first == loc[p].devices_result.devices[1]
             IN  /\ SinceListing(net'[p])
                      = <<CommandRequest([device_id |-> first.id, command |-> "set_temperature",
                                          parameters |-> [temperature |-> 70]])>>
                 /\ ~("pending" \in DOMAIN response'[p])
                 /\ Contains(response'[p].message, first.name)
                 /\ Contains(response'[p].message, "70")]_vars

\* the listing call of a finished turn of the local path: the last listing
\* request of the turn and what _tool_list_devices returned for its answer
LastListing(p) == Len(net[p]) - Len(SinceListing(net[p]))
ListingReturned(p) == tool_list_devices(answers[p][LastListing(p)])

\* C22: rendering a response changes no ActionRecord: in the response of a
\* turn that a local rule answered, the result of every list_devices record is
\* what the listing call returned when the record was created, the config of
\* its device entries included.
C22_RecordsNotMutated ==
    \A p \in Procs :
        (/\ pc[p] = "done" /\ local_result[p] = "matched"
         /\ response[p].error = <<>>) =>
            \A j \in DOMAIN response[p].actions_taken :
                response[p].actions_taken[j].tool = "list_devices" =>
                    response[p].actions_taken[j].result = ListingReturned(p)

\* the tool a local rule invoked when it sent the request r, with its args
InvocationOf(r) ==
    CASE r.op = "list" ->
            [tool |-> "list_devices",
             args |-> IF r.device_type = "" THEN EmptyDict
                      ELSE [device_type |-> r.device_type]]
      [] r.op = "status" ->
            [tool |-> "get_device_status", args |-> [device_id |-> r.device_id]]
      [] OTHER ->
            [tool |-> "send_device_command",
             args |-> IF r.payload = EmptyDict
                      THEN [device_id |-> r.device_id, command |-> r.command]
                      ELSE [device_id |-> r.device_id, command |-> r.command,
                            parameters |-> r.payload]]

DirectTools == {"list_devices", "get_device_status", "send_device_command"}

\* a turn is over that a local rule answered with records of tools that send
\* one request per invocation
DirectLocalTurn(p) ==
    /\ pc[p] = "done" /\ local_result[p] = "matched"
    /\ response[p].error = <<>>
    /\ \A j \in DOMAIN response[p].actions_taken :
          response[p].actions_taken[j].tool \in DirectTools

\* C23: the ActionRecords of a successful turn are a complete audit trail:
\* when a local rule answered with list_devices, get_device_status and
\* send_device_command records, every tool invocation of the turn appears as
\* exactly one record with its tool and arguments, in the order the
\* invocations were made.
C23_CompleteAuditTrail ==
    \A p \in Procs :
        DirectLocalTurn(p) =>
            /\ Len(response[p].actions_taken) = Len(net[p])
            /\ \A j \in DOMAIN response[p].actions_taken :
                  /\ response[p].actions_taken[j].tool = InvocationOf(net[p][j]).tool
                  /\ response[p].actions_taken[j].args = InvocationOf(net[p][j]).args

\* the records of a response were all created by the rule that answered: each
\* is the one record of a tool without requests of its own rule's listing,
\* or records a request the turn sent from its last listing on
OwnRecords(nt, actions_taken) ==
    \A j \in DOMAIN actions_taken :
        IF actions_taken[j].tool \in DirectTools
        THEN \E i \in (Len(nt) - Len(SinceListing(nt)))..Len(nt) :
                /\ i >= 1
                /\ InvocationOf(nt[i]).tool = actions_taken[j].tool
                /\ InvocationOf(nt[i]).args = actions_taken[j].args
        ELSE Len(actions_taken) = 1

\* C24: the local rules are tried in their fixed order and the first that
\* produces a response ends the evaluation: whenever the handler moves to the
\* pattern of another stage, that stage is the first later one whose pattern
\* matches the message; the step in which a rule returns its response sends no
\* request and ends the turn; and the returned ActionRecords are all records
\* of the rule that answered.
C24_FirstRuleWins ==
    [][\A p \in Procs :
         LET m == msg_lower_of(message'[p])
             s == loc[p].stage
             t == loc'[p].stage
         IN  /\ (pc'[p] \notin {"idle", "done"} /\ t # s) =>
                    /\ t > s
                    /\ StageGuard(m, t)
                    /\ \A u \in (s + 1)..(t - 1) : ~StageGuard(m, u)
             /\ (pc[p] # "done" /\ pc'[p] = "done" /\ local_result'[p] = "matched") =>
                    /\ net'[p] = net[p]
                    /\ OwnRecords(net'[p], response'[p].actions_taken)
                    /\ response'[p].actions_taken # <<>>
                    /\ response'[p].actions_taken[1].tool = "get_analytics" =>
                          /\ StageGuard(m, NoMatch - 1)
                          /\ \A u \in (s + 1)..(NoMatch - 2) : ~StageGuard(m, u)]_vars

\* the status rule listed the devices and fell through, and the lock rule
\* answered the turn with its own two records
C24_Witness ==
    \E p \in Procs :
        /\ pc[p] = "done" /\ local_result[p] = "matched"
        /\ Len(net[p]) = 3
        /\ net[p][1] = ListRequest("")
        /\ net[p][2] = ListRequest("smart_lock")
        /\ Len(response[p].actions_taken) = 2
        /\ response[p].actions_taken[1].args = [device_type |-> "smart_lock"]

\* C25: every planner request of a turn carries the two preamble entries and
\* then at most HistoryWindow entries: the most recent entries of the history
\* as it stood before the turn with the user message of the turn appended, in
\* their stored order; the last of them is the user message of the turn.
C25_PlannerSeesRecentHistory ==
    \A p \in Procs :
        \A j \in DOMAIN PlannerRequests(p) :
            LET contents == PlannerRequests(p)[j].contents
                recent   == SubSeq(contents, Len(Preamble) + 1, Len(contents))
                user     == UserEntry(message[p], turn[p])
            IN  /\ Len(contents) >= Len(Preamble)
                /\ SubSeq(contents, 1, Len(Preamble)) = Preamble
                /\ Len(recent) <= HistoryWindow
                /\ IsSuffix(recent, Append(before[p], user))
                /\ Len(recent) = HistoryWindow \/ recent = Append(before[p], user)
                /\ recent # <<>> /\ recent[Len(recent)] = user

\* a planner request was retried on a history longer than the window
C25_Witness ==
    \E p \in Procs :
        /\ Len(PlannerRequests(p)) >= 2
        /\ Len(before[p]) > HistoryWindow
        /\ Len(PlannerRequests(p)[2].contents) = Len(Preamble) + HistoryWindow

\* the conversation store holds no conversation
StoreEmpty == \A c \in ConvIds : conversations[c] = 0

\* C26: once the history was cleared, the store stays empty as long as no
\* chat turn is started: a step that starts no turn, the end of a turn that
\* was in flight included, leaves an empty store empty.
C26_ClearedStaysEmpty ==
    [][(StoreEmpty /\ turns' = turns) => StoreEmpty']_vars

\* the devices the type=light listings of p's turn returned
LightsListed(p) ==
    UNION {LET devices == Get(tool_list_devices(answers[p][i]), "devices", <<>>)
           IN  {devices[n].id : n \in DOMAIN devices} :
             i \in {j \in DOMAIN answers[p] : net[p][j] = ListRequest("light")}}

\* C27: in a turn whose message the "turn on/off all lights" pattern handles,
\* the local rules send device commands only to devices that the type=light
\* listing of the turn returned; when that listing is empty or failed, no
\* local rule sends a command.
C27_CommandsOnlyToListedLights ==
    \A p \in Procs :
        (/\ message[p] # ""
         /\ \E s \in 4..7 : StageGuard(msg_lower_of(message[p]), s)
         /\ StageFrom[message[p]][1] \in 4..7) =>
            \A j \in DOMAIN net[p] :
                (net[p][j].op = "command" /\ PlannerRequests(p) = <<>>) =>
                    net[p][j].device_id \in LightsListed(p)

\* the device service accepted the command: it answered the POST with a
\* status that _tool_send_device_command reports as success
Accepted(o) == ~IsExc(o) /\ o.status \in {200, 202}

\* C28: whenever the response of a turn carries an error, it has no
\* ActionRecords and no device command of the turn was accepted by the device
\* service.
C28_NoErrorAfterAcceptedCommand ==
    \A p \in Procs :
        (pc[p] = "done" /\ response[p].error # <<>>) =>
            /\ response[p].actions_taken = <<>>
            /\ \A j \in DOMAIN answers[p] :
                  net[p][j].op = "command" => ~Accepted(answers[p][j])

=============================================================================
